---- MODULE Spec2Model ----
(***************************************************************************)
(* RM690B0 display-controller driver (rm690b0-rs).                         *)
(*                                                                         *)
(*   src/src/lib.rs                    Rm690b0Driver, set_window, flush,   *)
(*                                     partial_flush, initialize_display   *)
(*   src/src/graphics_core.rs          DrawTarget::draw_iter               *)
(*   src/src/displays/lilygo_t4_s3.rs  Lgt4s3Driver (QSPI), ResetDriver    *)
(*                                                                         *)
(* Every call of the driver is one action.  What a call does to the        *)
(* outside world (transport transactions, delays, reset-pin levels) is     *)
(* recorded, in program order, in the variable log; a call starts with an  *)
(* empty log.  The transport and the reset pin are external collaborators: *)
(* each call draws, as an input, the number of the transaction (pin write) *)
(* at which the collaborator reports an error (0: never), and the error    *)
(* value the transport reports.  The build is an input too: with or        *)
(* without overflow checks, for a usize of 32 or of 64 bits.               *)
(***************************************************************************)
EXTENDS Integers, Naturals, Sequences, FiniteSets, TLC

VARIABLES
    state,        \* "Constructing" | "Ready" | "Failed" (no Driver was returned)
    config,       \* DisplaySize of the driver: [width, height]
    color,        \* ColorMode given to the constructor
    framebuffer,  \* the driver's Framebuffer: a sequence of bytes
    fb_before,    \* framebuffer as it was when the last call started
    call,         \* the last call: [op |-> name, ...arguments]
    log,          \* events of the last call, in program order
    result,       \* what the last call returned: "Ok", the variant of its
                  \* Err, or "Panic"
    error,        \* the value inside that Err ("none" otherwise)
    sent,         \* argument of the last call's send_pixels: [called, pixels]
    prev_failed,  \* the call before the last one returned an error
    touched,      \* byte ranges <<from, to>> (to excluded, both as 16-bit
                  \* halves [high, low]) of the framebuffer
                  \* that the last call indexed
    size          \* what framebuffer_size returned (SpecSize): [panic, high, low]

vars == <<state, config, color, framebuffer, fb_before, call, log, result, error,
          sent, prev_failed, touched, size>>

(***************************************************************************)
(* Bounds of the model.                                                    *)
(***************************************************************************)
MaxWidth == 2        \* configured widths are 0..MaxWidth
MaxHeight == 2       \* configured heights are 0..MaxHeight
MaxPixels == 2       \* pixels of one draw_iter iterator
MaxChunks == 2       \* SpecPixels: payloads of up to MaxChunks full chunks, +1 byte
MaxFailAt == 12      \* the transport fails at transaction 1..MaxFailAt, or never

(***************************************************************************)
(* Program constants.                                                      *)
(***************************************************************************)
CMD_RAMWR == 44              \* 0x2C
CMD_RAMWRC == 60             \* 0x3C
QSPI_PIXEL_OPCODE == 50      \* 0x32
QSPI_CONTROL_OPCODE == 2     \* 0x02
DMA_CHUNK_SIZE == 16380
SLPIN == 16                  \* 0x10
SLPOUT == 17                 \* 0x11
DISPOFF == 40                \* 0x28
DISPON == 41                 \* 0x29
CASET == 42                  \* 0x2A
RASET == 43                  \* 0x2B
TEOFF == 52                  \* 0x34
TEON == 53                   \* 0x35
MADCTR == 54                 \* 0x36
COLMOD == 58                 \* 0x3A
WRDISBV == 81                \* 0x51
MAX_COLUMN == 480            \* the literal of set_window's check

ColorMode == {"Rgb565", "Rgb888", "Rgb666", "Gray8"}

Min(a, b) == IF a < b THEN a ELSE b

\* ColorMode::bytes_per_pixel
bytes_per_pixel(c) ==
    CASE c = "Rgb565" -> 2
      [] c = "Rgb888" -> 3
      [] c = "Rgb666" -> 3
      [] c = "Gray8"  -> 1

\* DisplaySize::new
DisplaySize(w, h) == [width |-> w, height |-> h]

(***************************************************************************)
(* usize.  A value is kept as its 16-bit halves, high * 65536 + low; the   *)
(* exact result of an operation may have a high half of 65536 or more,     *)
(* which does not fit a usize of 32 bits.                                  *)
(***************************************************************************)
\* the widths of usize the crate is built with: 32 bits on the ESP32-S3 of
\* examples/lilygo_t4_s3_ex.rs, 64 bits on a host
UsizeBits == {32, 64}

\* a usize below 2^31 as its 16-bit halves
usize_halves(n) == [high |-> n \div 65536, low |-> n % 65536]

\* a * b for a below 2^16 and b below 2^24, exact
usize_product(a, b) ==
    LET t0 == a * (b % 256)
        t1 == a * ((b \div 256) % 256)
        t2 == a * (b \div 65536)
        low == t0 + (t1 % 256) * 256
    IN  [high |-> t2 + t1 \div 256 + low \div 65536, low |-> low % 65536]

\* n * k for a value n in halves and a factor k below 2^8, exact
usize_scaled(n, k) ==
    LET low == n.low * k
    IN  [high |-> n.high * k + low \div 65536, low |-> low % 65536]

\* a + b for two values in halves, exact
usize_sum(a, b) ==
    LET low == a.low + b.low
    IN  [high |-> a.high + b.high + low \div 65536, low |-> low % 65536]

\* what a usize operation with the exact result v gives: on 32 bits a
\* result of 2^32 or more panics with overflow checks and wraps modulo 2^32
\* without them; on 64 bits no result of the model overflows
usize_result(v, overflow_checks, usize_bits) ==
    IF usize_bits = 32 /\ v.high >= 65536
    THEN [panic |-> overflow_checks, high |-> v.high % 65536, low |-> v.low]
    ELSE [panic |-> FALSE, high |-> v.high, low |-> v.low]

\* v < len and v <= len for a usize v and a length below 2^31
usize_below(v, len) == v.high < 32768 /\ v.high * 65536 + v.low < len
usize_at_most(v, len) == v.high < 32768 /\ v.high * 65536 + v.low <= len

\* framebuffer_size: (width as usize) * (height as usize) * bytes_per_pixel.
\* The first product is below 2^32; the second overflows a usize of 32
\* bits from 2^32 bytes on (evaluated for a const item, the overflow stops
\* the build whatever the overflow checks).
framebuffer_size(display, c, overflow_checks, usize_bits) ==
    LET area == usize_result(usize_product(display.width, display.height),
                             overflow_checks, usize_bits)
        bytes == usize_result(usize_scaled(area, bytes_per_pixel(c)),
                              overflow_checks, usize_bits)
    IN  [panic |-> area.panic \/ bytes.panic, high |-> bytes.high, low |-> bytes.low]

(***************************************************************************)
(* The outside world of one call.  io.left is the number of transport      *)
(* transactions until the transport fails (0: it never does) and io.fault  *)
(* the error it then answers with; io.pin is the number of writes of the   *)
(* reset pin until one fails.  io.res is the Result so far, "Ok" or the    *)
(* variant of the Err, and io.err the value the Err carries.               *)
(***************************************************************************)
\* two values of the transport's error type (ControllerInterface::Error,
\* for the Lgt4s3Driver the SpiError of the HAL)
SpiError == {"SpiErrorA", "SpiErrorB"}

NewIo(failAt, spi_error, pinFail) ==
    [log |-> <<>>, left |-> failAt, fault |-> spi_error, pin |-> pinFail,
     res |-> "Ok", err |-> "none"]

\* SpiDmaBus::half_duplex_write as the driver uses it: one transaction, which
\* the transport accepts or answers with an SpiError; `?` returns that error
half_duplex_write(io, mode, opcode, addr, data) ==
    [io EXCEPT
       !.log = Append(@, [kind |-> "tx", mode |-> mode, opcode |-> opcode,
                          addr |-> addr, data |-> data, ok |-> (io.left # 1),
                          err |-> IF io.left = 1 THEN io.fault ELSE "none"]),
       !.left = IF @ > 0 THEN @ - 1 ELSE 0,
       !.res = IF io.left = 1 THEN "SpiError" ELSE "Ok",
       !.err = IF io.left = 1 THEN io.fault ELSE @]

\* DelayNs::delay_ms / Delay::delay_millis
delay_ms(io, ms) ==
    [io EXCEPT !.log = Append(@, [kind |-> "delay", ms |-> ms])]

\* Result::map_err(wrap): an Err(e) becomes Err(wrap(e)), the value e
\* (io.err) inside the new variant
map_err(io, wrap) ==
    IF io.res = "Ok" THEN io ELSE [io EXCEPT !.res = wrap]

(***************************************************************************)
(* Lgt4s3Driver: the QSPI implementation of ControllerInterface.           *)
(***************************************************************************)
Lgt4s3_send_command(io, cmd) ==
    half_duplex_write(io, "Single", QSPI_CONTROL_OPCODE, cmd * 256, <<>>)

Lgt4s3_send_command_with_data(io, cmd, data) ==
    half_duplex_write(io, "Single", QSPI_CONTROL_OPCODE, cmd * 256, data)

\* chunks as L / n + 1 slices: an empty slice after the last full one
chunks_extra(pixels, n) ==
    [k \in 1..(Len(pixels) \div n + 1) |->
        SubSeq(pixels, (k - 1) * n + 1, Min(k * n, Len(pixels)))]

\* slice::chunks(n): consecutive slices of n elements, the last one shorter;
\* no slice at all for an empty input
RECURSIVE chunks(_, _)
chunks(pixels, n) ==
    IF Len(pixels) = 0 THEN <<>>
    ELSE <<SubSeq(pixels, 1, Min(n, Len(pixels)))>>
         \o chunks(SubSeq(pixels, n + 1, Len(pixels)), n)

\* the loop with the write address on every chunk
RECURSIVE send_chunks_ramwr(_, _, _)
send_chunks_ramwr(io, cs, index) ==
    IF index >= Len(cs) THEN io
    ELSE LET io2 == half_duplex_write(io, "Quad", QSPI_PIXEL_OPCODE,
                                      CMD_RAMWR * 256, cs[index + 1])
         IN  IF io2.res # "Ok" THEN io2 ELSE send_chunks_ramwr(io2, cs, index + 1)

\* the loop with a chunk the transport refused written a second time
RECURSIVE send_chunks_retry(_, _, _)
send_chunks_retry(io, cs, index) ==
    IF index >= Len(cs) THEN io
    ELSE LET addr == (IF index = 0 THEN CMD_RAMWR ELSE CMD_RAMWRC) * 256
             io2 == half_duplex_write(io, "Quad", QSPI_PIXEL_OPCODE, addr, cs[index + 1])
             io3 == IF io2.res = "Ok" THEN io2
                    ELSE half_duplex_write(io2, "Quad", QSPI_PIXEL_OPCODE, addr,
                                           cs[index + 1])
         IN  IF io3.res # "Ok" THEN io3 ELSE send_chunks_retry(io3, cs, index + 1)

\* the while-let loop of send_pixels over chunks.enumerate(), from index on
RECURSIVE send_chunks(_, _, _)
send_chunks(io, cs, index) ==
    IF index >= Len(cs) THEN io
    ELSE LET chunk == cs[index + 1]
             io2 == IF index = 0
                    THEN half_duplex_write(io, "Quad", QSPI_PIXEL_OPCODE,
                                           CMD_RAMWR * 256, chunk)
                    ELSE half_duplex_write(io, "Quad", QSPI_PIXEL_OPCODE,
                                           CMD_RAMWRC * 256, chunk)
         IN  IF io2.res # "Ok" THEN io2 ELSE send_chunks(io2, cs, index + 1)

send_pixels(io, pixels) ==
    send_chunks(io, chunks(pixels, DMA_CHUNK_SIZE), 0)

(***************************************************************************)
(* ResetDriver: the GPIO implementation of ResetInterface.                 *)
(***************************************************************************)
\* OutputPin::set_low / set_high: one write of the reset pin
set_level(io, level) ==
    [io EXCEPT
       !.log = Append(@, [kind |-> "pin", level |-> level, ok |-> (io.pin # 1)]),
       !.pin = IF @ > 0 THEN @ - 1 ELSE 0,
       !.res = IF io.pin = 1 THEN "PinError" ELSE "Ok",
       !.err = IF io.pin = 1 THEN "PinError" ELSE @]

ResetDriver_reset(io) ==
    LET a == set_level(io, "low")
        b == delay_ms(a, 20)
        c == set_level(b, "high")
    IN  IF a.res # "Ok" THEN a
        ELSE IF c.res # "Ok" THEN c
        ELSE delay_ms(c, 150)

(***************************************************************************)
(* Rm690b0Driver: command helpers, reset and initialization.               *)
(***************************************************************************)
send_command(io, cmd) ==
    map_err(Lgt4s3_send_command(io, cmd), "InterfaceError")

send_command_with_data(io, cmd, data) ==
    map_err(Lgt4s3_send_command_with_data(io, cmd, data), "InterfaceError")

hard_reset(io) ==
    map_err(ResetDriver_reset(io), "ResetError")

\* the match with the values of Rgb565 and Rgb666 exchanged
colmod_value_exchanged(c) ==
    CASE c = "Rgb565" -> 102
      [] c = "Rgb888" -> 119
      [] c = "Rgb666" -> 85
      [] c = "Gray8"  -> 17

\* the match on color in initialize_display
colmod_value(c) ==
    CASE c = "Rgb565" -> 85      \* 0x55
      [] c = "Rgb888" -> 119     \* 0x77
      [] c = "Rgb666" -> 102     \* 0x66
      [] c = "Gray8"  -> 17      \* 0x11

Cmd(cmd) == [k |-> "cmd", cmd |-> cmd, data |-> <<>>, ms |-> 0]
CmdData(cmd, data) == [k |-> "cmd_data", cmd |-> cmd, data |-> data, ms |-> 0]
Delay(ms) == [k |-> "delay", cmd |-> 0, data |-> <<>>, ms |-> ms]

\* the sequence with the display turned on before the pixel format is set
initialize_display_steps_early_on(c) ==
    << Cmd(SLPOUT),
       Delay(120),
       CmdData(254, <<32>>),
       CmdData(38, <<10>>),
       CmdData(36, <<128>>),
       CmdData(90, <<81>>),
       CmdData(91, <<46>>),
       CmdData(254, <<0>>),
       Cmd(DISPON),
       Delay(20),
       CmdData(COLMOD, <<colmod_value(c)>>),
       CmdData(TEON, <<0>>),
       CmdData(WRDISBV, <<255>>) >>

\* the statements of initialize_display, in program order
initialize_display_steps(c) ==
    << Cmd(SLPOUT),
       Delay(120),
       CmdData(254, <<32>>),       \* 0xFE, 0x20
       CmdData(38, <<10>>),        \* 0x26, 0x0A
       CmdData(36, <<128>>),       \* 0x24, 0x80
       CmdData(90, <<81>>),        \* 0x5A, 0x51
       CmdData(91, <<46>>),        \* 0x5B, 0x2E
       CmdData(254, <<0>>),        \* 0xFE, 0x00
       CmdData(COLMOD, <<colmod_value(c)>>),
       CmdData(TEON, <<0>>),
       Cmd(DISPON),
       Delay(20),
       CmdData(WRDISBV, <<255>>) >>

do_step(io, s) ==
    CASE s.k = "cmd"      -> send_command(io, s.cmd)
      [] s.k = "cmd_data" -> send_command_with_data(io, s.cmd, s.data)
      [] s.k = "delay"    -> delay_ms(io, s.ms)

\* statements i.. of a function body each of which ends in `?`: the first Err
\* is returned at once
RECURSIVE run_steps(_, _, _)
run_steps(io, steps, i) ==
    IF i > Len(steps) \/ io.res # "Ok" THEN io
    ELSE run_steps(do_step(io, steps[i]), steps, i + 1)

initialize_display(io, c) ==
    run_steps(io, initialize_display_steps(c), 1)

\* the constructor with the Result of hard_reset dropped instead of returned
new_driver_unchecked(io, c) ==
    initialize_display([hard_reset(io) EXCEPT !.res = "Ok", !.err = "none"], c)

\* the body shared by new_static and new_heap, after the struct is built
new_driver(io, c) ==
    LET r == hard_reset(io)
    IN  IF r.res # "Ok" THEN r ELSE initialize_display(r, c)

sleep_in(io) == run_steps(io, <<Cmd(SLPIN), Delay(5)>>, 1)
sleep_out(io) == run_steps(io, <<Cmd(SLPOUT), Delay(5)>>, 1)
display_off(io) == send_command(io, DISPOFF)
display_on(io) == send_command(io, DISPON)
set_madctr(io, value) == send_command_with_data(io, MADCTR, <<value>>)
set_brightness(io, value) == send_command_with_data(io, WRDISBV, <<value>>)

(***************************************************************************)
(* Rm690b0Driver: window and flush.                                        *)
(***************************************************************************)
\* the check with the configured width in the place of 480
set_window_width(io, cfg, x_start, y_start, x_end, y_end) ==
    IF x_end < x_start \/ y_end < y_start \/ x_end >= cfg.width \/ y_end >= cfg.height
    THEN [io EXCEPT !.res = "InvalidConfiguration",
                    !.err = "Invalid window dimensions"]
    ELSE run_steps(io,
           << CmdData(CASET, <<x_start \div 256, x_start % 256,
                               x_end \div 256, x_end % 256>>),
              CmdData(RASET, <<y_start \div 256, y_start % 256,
                               y_end \div 256, y_end % 256>>) >>, 1)

\* the window payloads with the low byte of each value first
set_window_low_byte_first(io, cfg, x_start, y_start, x_end, y_end) ==
    IF x_end < x_start \/ y_end < y_start \/ x_end >= MAX_COLUMN \/ y_end >= cfg.height
    THEN [io EXCEPT !.res = "InvalidConfiguration",
                    !.err = "Invalid window dimensions"]
    ELSE run_steps(io,
           << CmdData(CASET, <<x_start % 256, x_start \div 256,
                               x_end % 256, x_end \div 256>>),
              CmdData(RASET, <<y_start % 256, y_start \div 256,
                               y_end % 256, y_end \div 256>>) >>, 1)

\* the window commands issued RASET first
set_window_rows_first(io, cfg, x_start, y_start, x_end, y_end) ==
    IF x_end < x_start \/ y_end < y_start \/ x_end >= MAX_COLUMN \/ y_end >= cfg.height
    THEN [io EXCEPT !.res = "InvalidConfiguration",
                    !.err = "Invalid window dimensions"]
    ELSE run_steps(io,
           << CmdData(RASET, <<y_start \div 256, y_start % 256,
                               y_end \div 256, y_end % 256>>),
              CmdData(CASET, <<x_start \div 256, x_start % 256,
                               x_end \div 256, x_end % 256>>) >>, 1)

set_window(io, cfg, x_start, y_start, x_end, y_end) ==
    IF x_end < x_start \/ y_end < y_start \/ x_end >= MAX_COLUMN \/ y_end >= cfg.height
    THEN [io EXCEPT !.res = "InvalidConfiguration",
                    !.err = "Invalid window dimensions"]
    ELSE run_steps(io,
           << CmdData(CASET, <<x_start \div 256, x_start % 256,
                               x_end \div 256, x_end % 256>>),
              CmdData(RASET, <<y_start \div 256, y_start % 256,
                               y_end \div 256, y_end % 256>>) >>, 1)

NotSent == [called |-> FALSE, pixels |-> <<>>]
Sent(pixels) == [called |-> TRUE, pixels |-> pixels]

\* a - 1 on u16: with overflow checks 0 - 1 panics, without them it wraps
dec_u16(a, overflow_checks) ==
    IF a > 0 THEN [panic |-> FALSE, v |-> a - 1]
    ELSE IF overflow_checks THEN [panic |-> TRUE, v |-> 0]
    ELSE [panic |-> FALSE, v |-> 65535]

flush(io, cfg, fb, overflow_checks) ==
    LET xe == dec_u16(cfg.width, overflow_checks)
        ye == dec_u16(cfg.height, overflow_checks)
        w == set_window(io, cfg, 0, 0, xe.v, ye.v)
    IN  IF xe.panic \/ ye.panic THEN [io |-> [io EXCEPT !.res = "Panic"], sent |-> NotSent]
        ELSE IF w.res # "Ok" THEN [io |-> w, sent |-> NotSent]
        ELSE [io |-> map_err(send_pixels(w, fb), "InterfaceError"), sent |-> Sent(fb)]

\* offset and row_end of row y of partial_flush's loop, each operation on
\* usize: (y_start + y) * fb_width, + x_start * bytes_per_pixel, + width *
\* bytes_per_pixel.  After set_window has accepted the rectangle y_start + y
\* is at most y_end, and x_start and width are at most 480, so only the
\* three operations below can overflow.
row_range(fb_width, x_start, y_start, width, bpp, y, overflow_checks, usize_bits) ==
    LET rows == usize_result(usize_product(y_start + y, fb_width),
                             overflow_checks, usize_bits)
        offset == usize_result(usize_sum(rows, usize_halves(x_start * bpp)),
                               overflow_checks, usize_bits)
        row_end == usize_result(usize_sum(offset, usize_halves(width * bpp)),
                                overflow_checks, usize_bits)
    IN  [panic |-> rows.panic \/ offset.panic \/ row_end.panic,
         offset |-> [high |-> offset.high, low |-> offset.low],
         row_end |-> [high |-> row_end.high, low |-> row_end.low]]

\* the for loop of partial_flush from row y on: the packed rows, the early
\* return of the else branch, or the panic of an overflowing operation.  A
\* row that passed the test has offset < row_end <= len, so the slice
\* expression itself does not panic.
RECURSIVE gather_rows(_, _, _, _, _, _, _, _, _, _)
gather_rows(fb, fb_width, x_start, y_start, width, height, bpp, y, overflow_checks, usize_bits) ==
    IF y >= height THEN [ok |-> TRUE, panic |-> FALSE, data |-> <<>>]
    ELSE LET r == row_range(fb_width, x_start, y_start, width, bpp, y,
                            overflow_checks, usize_bits)
             offset == r.offset.high * 65536 + r.offset.low
             row_end == r.row_end.high * 65536 + r.row_end.low
         IN  IF r.panic THEN [ok |-> FALSE, panic |-> TRUE, data |-> <<>>]
             ELSE IF usize_below(r.offset, Len(fb)) /\ usize_at_most(r.row_end, Len(fb))
             THEN LET rest == gather_rows(fb, fb_width, x_start, y_start, width,
                                          height, bpp, y + 1, overflow_checks,
                                          usize_bits)
                  IN  [ok |-> rest.ok, panic |-> rest.panic,
                       data |-> SubSeq(fb, offset + 1, row_end) \o rest.data]
             ELSE [ok |-> FALSE, panic |-> FALSE, data |-> <<>>]

\* the same computation on eight bits
span_u8(a, b, overflow_checks) ==
    LET d == b - a
        s == (d % 256) + 1
    IN  IF overflow_checks /\ (d < 0 \/ d + 1 > 255)
        THEN [panic |-> TRUE, v |-> 0]
        ELSE [panic |-> FALSE, v |-> s % 256]

\* b - a + 1 on u16, the width and the height of partial_flush's rectangle:
\* with overflow checks a difference below 0 or a sum above 65535 panics,
\* without them each operation wraps
span_u16(a, b, overflow_checks) ==
    LET d == b - a
        s == (d % 65536) + 1
    IN  IF overflow_checks /\ (d < 0 \/ d + 1 > 65535)
        THEN [panic |-> TRUE, v |-> 0]
        ELSE [panic |-> FALSE, v |-> s % 65536]

\* the one index expression of flush: the whole buffer, borrowed for
\* send_pixels
flush_ranges(fb, snt) ==
    IF snt.called THEN {<<0, Len(fb)>>} ELSE {}

\* the index expressions self.framebuffer[offset..row_end] that the for loop
\* of partial_flush evaluates from row y on, up to its early return or panic
RECURSIVE gather_rows_ranges(_, _, _, _, _, _, _, _, _, _)
gather_rows_ranges(fb, fb_width, x_start, y_start, width, height, bpp, y, overflow_checks, usize_bits) ==
    IF y >= height THEN {}
    ELSE LET r == row_range(fb_width, x_start, y_start, width, bpp, y,
                            overflow_checks, usize_bits)
         IN  IF r.panic THEN {}
             ELSE IF usize_below(r.offset, Len(fb)) /\ usize_at_most(r.row_end, Len(fb))
             THEN {<<r.offset, r.row_end>>}
                  \cup gather_rows_ranges(fb, fb_width, x_start, y_start, width,
                                          height, bpp, y + 1, overflow_checks,
                                          usize_bits)
             ELSE {}

\* the index expressions partial_flush evaluates: none when set_window
\* returned an error
partial_flush_ranges(io, cfg, fb, x_start, x_end, y_start, y_end, c, overflow_checks, usize_bits) ==
    LET w == set_window(io, cfg, x_start, y_start, x_end, y_end)
        bpp == bytes_per_pixel(c)
        width == span_u16(x_start, x_end, overflow_checks)
        height == span_u16(y_start, y_end, overflow_checks)
    IN  IF w.res # "Ok" THEN {}
        ELSE IF width.panic \/ height.panic THEN {}
        ELSE gather_rows_ranges(fb, cfg.width * bpp, x_start, y_start,
                                width.v, height.v, bpp, 0, overflow_checks,
                                usize_bits)

\* fb_width, at most 65535 * 3, and the capacity width * height *
\* bytes_per_pixel of an accepted rectangle, at most 480 * 65535 * 3, fit a
\* usize of 32 bits
partial_flush(io, cfg, fb, x_start, x_end, y_start, y_end, c, overflow_checks, usize_bits) ==
    LET w == set_window(io, cfg, x_start, y_start, x_end, y_end)
        bpp == bytes_per_pixel(c)
        fb_width == cfg.width * bpp
        width == span_u16(x_start, x_end, overflow_checks)
        height == span_u16(y_start, y_end, overflow_checks)
        rows == gather_rows(fb, fb_width, x_start, y_start, width.v, height.v,
                            bpp, 0, overflow_checks, usize_bits)
    IN  IF w.res # "Ok" THEN [io |-> w, sent |-> NotSent]
        ELSE IF width.panic \/ height.panic \/ rows.panic
             THEN [io |-> [w EXCEPT !.res = "Panic"], sent |-> NotSent]
        ELSE IF ~rows.ok
             THEN [io |-> [w EXCEPT !.res = "InvalidConfiguration",
                                    !.err = "Framebuffer slice out of bounds"],
                   sent |-> NotSent]
        ELSE [io |-> map_err(send_pixels(w, rows.data), "InterfaceError"),
              sent |-> Sent(rows.data)]

(***************************************************************************)
(* DrawTarget for Rm690b0Driver.                                           *)
(***************************************************************************)
Pixel(x, y, c) == [x |-> x, y |-> y, c |-> c]

\* y * self.config.width as u32 + x, for a coordinate that passed the bounds
\* check (or a mutation of it): x <= 65535 and y <= 65535, so the value is
\* below 2^32 and neither u32 operation overflows.  The value is kept as
\* its 16-bit halves, high * 65536 + low.
pixel_number_u32(cfg, p) ==
    LET a == p.y * (cfg.width \div 256)
        b == p.y * (cfg.width % 256) + p.x
        mid == (a % 256) * 256 + b
    IN  [high |-> a \div 256 + mid \div 65536, low |-> mid % 65536]

\* n * 3 on u32: with overflow checks a product above u32::MAX panics,
\* without them it wraps modulo 2^32
mul3_u32(n, overflow_checks) ==
    LET low3 == n.low * 3
        high3 == n.high * 3 + low3 \div 65536
    IN  [panic |-> overflow_checks /\ high3 >= 65536,
         high |-> high3 % 65536,
         low |-> low3 % 65536]

\* byte ranges <<from, to>> with their ends as 16-bit halves
usize_ranges(ranges) == {<<usize_halves(r[1]), usize_halves(r[2])>> : r \in ranges}

\* index + k for k in 0..3, unreduced: the high half is 65536 where the sum
\* is 2^32 or more
index_plus(ix, k) ==
    LET low == ix.low + k
    IN  [high |-> ix.high + low \div 65536, low |-> low % 65536]

\* index + 2 < self.framebuffer.len(), index being the u32 as usize.  On a
\* usize of 64 bits the sum cannot overflow.  On one of 32 bits it does for
\* index 0xFFFFFFFE and 0xFFFFFFFF: with overflow checks the addition
\* panics, without them the sum wraps to 0 or 1 and is compared with len.
index_fits(ix, len, overflow_checks, usize_bits) ==
    LET sum == index_plus(ix, 2)
    IN  IF usize_bits = 32 /\ sum.high >= 65536
        THEN [panic |-> overflow_checks, fits |-> ~overflow_checks /\ sum.low < len]
        ELSE [panic |-> FALSE,
              fits |-> sum.high < 32768 /\ sum.high * 65536 + sum.low < len]

\* the bounds check of self.framebuffer[index]
index_inside(ix, len) == ix.high < 32768 /\ ix.high * 65536 + ix.low < len

\* the body of the loop for a coordinate that passed the bounds check; c is
\* Rgb888::into_storage(), a u32.  The index is computed on u32: a build
\* with overflow checks panics when (y * width + x) * 3 exceeds u32::MAX, a
\* build without them goes on with the wrapped index.  An index that passed
\* `index + 2 < len` by the wrap of a 32-bit sum is outside the buffer, and
\* self.framebuffer[index] panics.
store_pixel(cfg, fb, p, overflow_checks, usize_bits) ==
    LET ix == mul3_u32(pixel_number_u32(cfg, p), overflow_checks)
        f == index_fits(ix, Len(fb), overflow_checks, usize_bits)
        index == ix.high * 65536 + ix.low
        r == (p.c \div 65536) % 256
        g == (p.c \div 256) % 256
        b == p.c % 256
    IN  IF ix.panic \/ f.panic THEN [panic |-> TRUE, fb |-> fb]
        ELSE IF ~f.fits THEN [panic |-> FALSE, fb |-> fb]
        ELSE IF ~index_inside(ix, Len(fb)) THEN [panic |-> TRUE, fb |-> fb]
        ELSE [panic |-> FALSE,
              fb |-> [fb EXCEPT ![index + 1] = r, ![index + 2] = g, ![index + 3] = b]]

\* the index expressions framebuffer[index], [index + 1], [index + 2] that
\* the body of the loop evaluates: all three, or the first alone where it
\* panics
store_pixel_ranges(cfg, fb, p, overflow_checks, usize_bits) ==
    LET ix == mul3_u32(pixel_number_u32(cfg, p), overflow_checks)
        f == index_fits(ix, Len(fb), overflow_checks, usize_bits)
    IN  IF ix.panic \/ f.panic \/ ~f.fits THEN {}
        ELSE IF ~index_inside(ix, Len(fb))
        THEN {<<index_plus(ix, 0), index_plus(ix, 1)>>}
        ELSE {<<index_plus(ix, 0), index_plus(ix, 1)>>,
              <<index_plus(ix, 1), index_plus(ix, 2)>>,
              <<index_plus(ix, 2), index_plus(ix, 3)>>}

\* the iteration with the right and bottom edges compared by <=
draw_pixel_edge(cfg, fb, p, overflow_checks, usize_bits) ==
    IF p.x >= 0 /\ p.x <= cfg.width /\ p.y >= 0 /\ p.y <= cfg.height
    THEN store_pixel(cfg, fb, p, overflow_checks, usize_bits)
    ELSE [panic |-> FALSE, fb |-> fb]

\* one iteration of draw_iter's loop
draw_pixel(cfg, fb, p, overflow_checks, usize_bits) ==
    IF p.x >= 0 /\ p.x < cfg.width /\ p.y >= 0 /\ p.y < cfg.height
    THEN store_pixel(cfg, fb, p, overflow_checks, usize_bits)
    ELSE [panic |-> FALSE, fb |-> fb]

\* the index expressions of one iteration of draw_iter's loop
draw_pixel_ranges(cfg, fb, p, overflow_checks, usize_bits) ==
    IF p.x >= 0 /\ p.x < cfg.width /\ p.y >= 0 /\ p.y < cfg.height
    THEN store_pixel_ranges(cfg, fb, p, overflow_checks, usize_bits)
    ELSE {}

\* the index expressions of a whole draw_iter, up to and including the
\* iteration that panics: no iteration changes the length of the buffer
RECURSIVE draw_from_ranges(_, _, _, _, _, _)
draw_from_ranges(cfg, fb, pixels, i, overflow_checks, usize_bits) ==
    IF i > Len(pixels) THEN {}
    ELSE draw_pixel_ranges(cfg, fb, pixels[i], overflow_checks, usize_bits)
            \cup IF draw_pixel(cfg, fb, pixels[i], overflow_checks, usize_bits).panic
                 THEN {}
                 ELSE draw_from_ranges(cfg, fb, pixels, i + 1, overflow_checks, usize_bits)

draw_iter_ranges(cfg, fb, pixels, overflow_checks, usize_bits) ==
    draw_from_ranges(cfg, fb, pixels, 1, overflow_checks, usize_bits)

\* the loop from its i-th pixel on: a panic ends it, and the pixels written
\* before it stay written
RECURSIVE draw_from(_, _, _, _, _, _)
draw_from(cfg, fb, pixels, i, overflow_checks, usize_bits) ==
    IF i > Len(pixels) THEN [panic |-> FALSE, fb |-> fb]
    ELSE LET r == draw_pixel(cfg, fb, pixels[i], overflow_checks, usize_bits)
         IN  IF r.panic THEN r
             ELSE draw_from(cfg, r.fb, pixels, i + 1, overflow_checks, usize_bits)

draw_iter(cfg, fb, pixels, overflow_checks, usize_bits) ==
    draw_from(cfg, fb, pixels, 1, overflow_checks, usize_bits)

(***************************************************************************)
(* Inputs of the driver's calls.                                           *)
(***************************************************************************)
Configs == {DisplaySize(w, h) : w \in 0..MaxWidth, h \in 0..MaxHeight}

\* the display of examples/lilygo_t4_s3_ex.rs, 450 pixels wide and in Rgb888,
\* cut down to its first thirteen rows: 17550 bytes, more than one DMA chunk
ExampleConfig == DisplaySize(450, 13)

\* panels at the ends of the controller's column range and of the u16 range
\* of heights; they are driven in Gray8
EdgeConfigs == {DisplaySize(480, 1), DisplaySize(481, 1), DisplaySize(1, 65535)}

\* the largest panel a DisplaySize can describe: on it (y * width + x) * 3
\* exceeds u32::MAX from row 21845 on
WideConfig == DisplaySize(65535, 65535)

\* a panel 65534 wide: in Rgb888 the bytes of its pixel (2, 21846) start at
\* 21846 * 196602 + 6 = 2^32 + 2
RowWrapConfig == DisplaySize(65534, 65535)

\* the array lengths N a driver is constructed with: framebuffer_size of its
\* display, and two bytes for the panel of 65535 rows, eight for the two
\* largest panels (N is the caller's choice, the constructors do not compare
\* it with the display size)
FbLens(cfg, c) ==
    IF cfg \in {WideConfig, RowWrapConfig} THEN {8}
    ELSE IF cfg.height = 65535 THEN {2}
    ELSE LET n == framebuffer_size(cfg, c, TRUE, 32)
         IN  {n.high * 65536 + n.low}

\* new_heap: Box::new([0u8; N])
Zeros(n) == [i \in 1..n |-> 0]
\* new_static: the caller's array, here with bytes that all differ
StaticArray(n) == [i \in 1..n |-> (15 + i) % 256]

\* Rgb888 colours as into_storage() gives them
Colors == {1193046, 16711850}       \* 0x123456, 0xFF00AA

Rect(xs, xe, ys, ye) == [x_start |-> xs, x_end |-> xe, y_start |-> ys, y_end |-> ye]

\* u16 rectangles around the edges of the panel and of the controller's range
Rects(cfg) ==
    LET w == cfg.width
        h == cfg.height
    IN  {r \in { Rect(0, w - 1, 0, h - 1),  Rect(w - 1, w - 1, h - 1, h - 1),
                 Rect(0, w - 1, 0, 0),      Rect(w - 1, w - 1, 0, h - 1),
                 Rect(1, 0, 0, 0),          Rect(0, 0, 1, 0),
                 Rect(0, w, 0, h - 1),      Rect(w, w, 0, 0),
                 Rect(0, 0, 0, h),          Rect(10, 19, 5, 5),
                 Rect(0, MAX_COLUMN - 1, 0, 0),
                 Rect(0, MAX_COLUMN, 0, 0) } :
           r.x_start >= 0 /\ r.x_end >= 0 /\ r.y_start >= 0 /\ r.y_end >= 0}
        \cup (IF cfg = RowWrapConfig THEN {Rect(2, 2, 21846, 21846)} ELSE {})

\* coordinates at the end of the u32 range on a panel 65535 wide:
\*   (21845 * 65535 + 43691) * 3 = 2^32 + 2, which wraps to 2;
\*   (21845 * 65535 + 43690) * 3 = 2^32 - 1, the largest u32;
\*   (43691 * 65535 + 21845) * 3 = 2^33 - 2, which wraps to 2^32 - 2
WrapPoints == { <<43691, 21845>>, <<43690, 21845>>, <<21845, 43691>> }

inside(cfg, p) == p[1] >= 0 /\ p[1] < cfg.width /\ p[2] >= 0 /\ p[2] < cfg.height

\* i32 coordinates inside the panel: its corners (an empty panel holds no
\* point)
InPoints(cfg) ==
    {p \in { <<0, 0>>, <<cfg.width - 1, cfg.height - 1>> } : inside(cfg, p)}
\* i32 coordinates just outside the panel
OutPoints(cfg) == { <<-1, 0>>, <<0, -1>>, <<cfg.width, 0>>, <<0, cfg.height>> }

Pixels(cfg, colors) ==
    {Pixel(p[1], p[2], c) : p \in InPoints(cfg), c \in colors}
        \cup {Pixel(p[1], p[2], 1193046) : p \in OutPoints(cfg)}
        \cup {Pixel(p[1], p[2], 1193046) : p \in {q \in WrapPoints : inside(cfg, q)}}

RECURSIVE SeqsUpTo(_, _)
SeqsUpTo(S, n) ==
    IF n = 0 THEN {<<>>}
    ELSE LET shorter == SeqsUpTo(S, n - 1)
         IN  shorter \cup {Append(q, e) : q \in {t \in shorter : Len(t) = n - 1}, e \in S}

(***************************************************************************)
(* Spec: the life of one driver.                                           *)
(***************************************************************************)
\* before the constructor is called with display size cfg and colour mode c
Constructing(cfg, c) ==
    /\ state = "Constructing"
    /\ config = cfg
    /\ color = c
    /\ framebuffer = <<>>
    /\ fb_before = <<>>
    /\ call = [op |-> "none"]
    /\ log = <<>>
    /\ result = "None"
    /\ error = "none"
    /\ sent = NotSent
    /\ prev_failed = FALSE
    /\ touched = {}
    /\ size = 0

Init ==
    \/ \E cfg \in Configs, c \in ColorMode : Constructing(cfg, c)
    \/ Constructing(ExampleConfig, "Rgb888")
    \/ \E cfg \in EdgeConfigs : Constructing(cfg, "Gray8")
    \/ Constructing(RowWrapConfig, "Rgb888")

\* a constructed driver whose caller is about to make its next call
Idle == state = "Ready" /\ call.op = "none"

\* the frame of every call on a constructed driver
Returned(op, io, snt) ==
    /\ Idle
    /\ call' = op
    /\ log' = io.log
    /\ result' = io.res
    /\ error' = io.err
    /\ sent' = snt
    /\ fb_before' = framebuffer
    /\ state' = IF io.res = "Panic" THEN "Panicked" ELSE state
    /\ UNCHANGED <<config, color, prev_failed, size>>

\* new_static (the caller's array) or new_heap (a zeroed array) of n bytes
New(kind, n, failAt, spi_error, pinFail) ==
    LET io == new_driver(NewIo(failAt, spi_error, pinFail), color)
    IN  /\ state = "Constructing"
        /\ call' = [op |-> "new", kind |-> kind, n |-> n]
        /\ log' = io.log
        /\ result' = io.res
        /\ error' = io.err
        /\ state' = IF io.res = "Ok" THEN "Ready" ELSE "Failed"
        /\ framebuffer' = IF io.res # "Ok" THEN <<>>
                          ELSE IF kind = "heap" THEN Zeros(n) ELSE StaticArray(n)
        /\ fb_before' = framebuffer'
        /\ touched' = {}
        /\ UNCHANGED <<config, color, sent, prev_failed, size>>

\* draw_iter returns Ok(()) unless an iteration panics
DrawIter(pixels, overflow_checks, usize_bits) ==
    LET r == draw_iter(config, framebuffer, pixels, overflow_checks, usize_bits)
    IN  /\ framebuffer' = r.fb
        /\ touched' = draw_iter_ranges(config, framebuffer, pixels, overflow_checks,
                                       usize_bits)
        /\ Returned([op |-> "draw_iter", pixels |-> pixels],
                    [NewIo(0, "none", 0) EXCEPT !.res = IF r.panic THEN "Panic" ELSE "Ok"],
                    NotSent)

Flush(failAt, spi_error, overflow_checks) ==
    LET r == flush(NewIo(failAt, spi_error, 0), config, framebuffer, overflow_checks)
    IN  /\ Returned([op |-> "flush"], r.io, r.sent)
        /\ touched' = usize_ranges(flush_ranges(framebuffer, r.sent))
        /\ UNCHANGED framebuffer

\* partial_flush with the rows it sends moved out of the framebuffer, which
\* is left zeroed
PartialFlush_moving(rc, c, failAt, spi_error, overflow_checks, usize_bits) ==
    LET r == partial_flush(NewIo(failAt, spi_error, 0), config, framebuffer,
                           rc.x_start, rc.x_end, rc.y_start, rc.y_end, c,
                           overflow_checks, usize_bits)
    IN  /\ Returned([op |-> "partial_flush", rect |-> rc, color |-> c], r.io, r.sent)
        /\ touched' = {}
        /\ framebuffer' = IF r.sent.called THEN Zeros(Len(framebuffer))
                                            ELSE framebuffer

PartialFlush(rc, c, failAt, spi_error, overflow_checks, usize_bits) ==
    LET r == partial_flush(NewIo(failAt, spi_error, 0), config, framebuffer,
                           rc.x_start, rc.x_end, rc.y_start, rc.y_end, c,
                           overflow_checks, usize_bits)
    IN  /\ Returned([op |-> "partial_flush", rect |-> rc, color |-> c], r.io, r.sent)
        /\ touched' = partial_flush_ranges(NewIo(failAt, spi_error, 0), config,
                                           framebuffer, rc.x_start, rc.x_end,
                                           rc.y_start, rc.y_end, c,
                                           overflow_checks, usize_bits)
        /\ UNCHANGED framebuffer

SetWindow(rc, failAt, spi_error) ==
    LET io == set_window(NewIo(failAt, spi_error, 0), config,
                         rc.x_start, rc.y_start, rc.x_end, rc.y_end)
    IN  /\ Returned([op |-> "set_window", rect |-> rc], io, NotSent)
        /\ touched' = {}
        /\ UNCHANGED framebuffer

\* sleep_in, sleep_out, display_off, display_on, set_madctr, set_brightness
Control(op, value, failAt, spi_error) ==
    LET io0 == NewIo(failAt, spi_error, 0)
        io == CASE op = "sleep_in"       -> sleep_in(io0)
                [] op = "sleep_out"      -> sleep_out(io0)
                [] op = "display_off"    -> display_off(io0)
                [] op = "display_on"     -> display_on(io0)
                [] op = "set_madctr"     -> set_madctr(io0, value)
                [] op = "set_brightness" -> set_brightness(io0, value)
    IN  /\ Returned([op |-> op, value |-> value], io, NotSent)
        /\ touched' = {}
        /\ UNCHANGED framebuffer

\* initialize_display called again on a constructed driver
InitializeDisplay(c, failAt, spi_error) ==
    LET io == initialize_display(NewIo(failAt, spi_error, 0), c)
    IN  /\ Returned([op |-> "initialize_display", color |-> c], io, NotSent)
        /\ touched' = {}
        /\ UNCHANGED framebuffer

\* hard_reset called again on a constructed driver
HardReset(pinFail) ==
    LET io == hard_reset(NewIo(0, "none", pinFail))
    IN  /\ Returned([op |-> "hard_reset"], io, NotSent)
        /\ touched' = {}
        /\ UNCHANGED framebuffer

\* the caller has looked at what the call returned and goes on to its next
\* call: the record of the last call is dropped
Resume ==
    /\ state = "Ready"
    /\ call.op # "none"
    /\ call' = [op |-> "none"]
    /\ log' = <<>>
    /\ sent' = NotSent
    /\ result' = "None"
    /\ error' = "none"
    /\ prev_failed' = (result # "Ok")
    /\ fb_before' = framebuffer
    /\ touched' = {}
    /\ UNCHANGED <<state, config, color, framebuffer, size>>

ControlOps ==
    {"sleep_in", "sleep_out", "display_off", "display_on", "set_madctr", "set_brightness"}

Next ==
    \/ state = "Constructing" /\
          \E kind \in {"static", "heap"}, n \in FbLens(config, color),
             failAt \in 0..MaxFailAt, spi_error \in SpiError, pinFail \in 0..2 :
                New(kind, n, failAt, spi_error, pinFail)
    \/ Idle /\ \E pixels \in SeqsUpTo(Pixels(config, {1193046}), 1), overflow_checks \in BOOLEAN,
                  usize_bits \in UsizeBits : DrawIter(pixels, overflow_checks, usize_bits)
    \/ Idle /\ \E failAt \in 0..4, spi_error \in SpiError, overflow_checks \in BOOLEAN :
                  Flush(failAt, spi_error, overflow_checks)
    \/ Idle /\ \E rc \in Rects(config), c \in ColorMode, failAt \in 0..4,
                  spi_error \in SpiError, overflow_checks \in BOOLEAN,
                  usize_bits \in UsizeBits :
                     PartialFlush(rc, c, failAt, spi_error, overflow_checks, usize_bits)
    \/ Idle /\ \E rc \in Rects(config), failAt \in 0..2, spi_error \in SpiError :
                  SetWindow(rc, failAt, spi_error)
    \/ Idle /\ \E op \in ControlOps, failAt \in 0..1, spi_error \in SpiError :
                  Control(op, 128, failAt, spi_error)
    \/ Idle /\ \E c \in ColorMode, failAt \in 0..MaxFailAt, spi_error \in SpiError :
                  InitializeDisplay(c, failAt, spi_error)
    \/ Idle /\ \E pinFail \in 0..2 : HardReset(pinFail)
    \/ Resume

Spec == Init /\ [][Next]_vars

(***************************************************************************)
(* SpecDraw: a driver is constructed and then only drawn into, by          *)
(* iterators of up to MaxPixels pixels.                                    *)
(***************************************************************************)
NextDraw ==
    \/ state = "Constructing" /\
          \E kind \in {"static", "heap"}, n \in FbLens(config, color),
             failAt \in 0..MaxFailAt, spi_error \in SpiError, pinFail \in 0..2 :
                New(kind, n, failAt, spi_error, pinFail)
    \/ Idle /\ \E pixels \in SeqsUpTo(Pixels(config, Colors), MaxPixels),
                  overflow_checks \in BOOLEAN, usize_bits \in UsizeBits :
                     DrawIter(pixels, overflow_checks, usize_bits)
    \/ Resume

InitDraw ==
    \/ \E cfg \in Configs, c \in ColorMode : Constructing(cfg, c)
    \/ Constructing(WideConfig, "Rgb888")

SpecDraw == InitDraw /\ [][NextDraw]_vars

(***************************************************************************)
(* SpecSize: framebuffer_size applied to display sizes and colour modes.   *)
(***************************************************************************)
SizeConfigs ==
    {DisplaySize(w, h) : w \in (0..MaxWidth) \cup {450, 600, 65535},
                         h \in (0..MaxHeight) \cup {450, 600, 65535}}

InitSize ==
    /\ state = "Const"
    /\ config \in SizeConfigs
    /\ color \in ColorMode
    /\ framebuffer = <<>>
    /\ fb_before = <<>>
    /\ call = [op |-> "none"]
    /\ log = <<>>
    /\ result = "None"
    /\ error = "none"
    /\ sent = NotSent
    /\ prev_failed = FALSE
    /\ touched = {}
    /\ size = 0

\* framebuffer_size(DISPLAY_SIZE, color), as for the const FB_SIZE of the
\* example
FramebufferSize(overflow_checks, usize_bits) ==
    /\ state = "Const"
    /\ call.op = "none"
    /\ call' = [op |-> "framebuffer_size"]
    /\ size' = framebuffer_size(config, color, overflow_checks, usize_bits)
    /\ UNCHANGED <<state, config, color, framebuffer, fb_before, log, result, error,
                   sent, prev_failed, touched>>

NextSize ==
    \E overflow_checks \in BOOLEAN, usize_bits \in UsizeBits :
        FramebufferSize(overflow_checks, usize_bits)

SpecSize == InitSize /\ [][NextSize]_vars

(***************************************************************************)
(* SpecPixels: Lgt4s3Driver::send_pixels applied to payloads whose lengths *)
(* lie around the multiples of DMA_CHUNK_SIZE.                             *)
(***************************************************************************)
PayloadLens ==
    {n \in {k * DMA_CHUNK_SIZE + d : k \in 0..MaxChunks, d \in {-1, 0, 1}} : n >= 0}
        \cup {2, 255}

\* a payload whose bytes differ from chunk to chunk
Payload(len, seed) == [i \in 1..len |-> (seed + 7 * i + (i \div 251)) % 256]

Payloads == {Payload(n, s) : n \in PayloadLens, s \in {0, 1, 100, 200}}

InitPixels ==
    /\ state = "Interface"
    /\ config = DisplaySize(0, 0)
    /\ color = "Rgb888"
    /\ framebuffer = <<>>
    /\ fb_before = <<>>
    /\ call = [op |-> "none"]
    /\ log = <<>>
    /\ result = "None"
    /\ error = "none"
    /\ \E p \in Payloads : sent = [called |-> FALSE, pixels |-> p]
    /\ prev_failed = FALSE
    /\ touched = {}
    /\ size = 0

\* one call of ControllerInterface::send_pixels on the Lgt4s3Driver, with the
\* payload drawn by InitPixels; the interface can be called again and again
SendPixels(failAt, spi_error) ==
    LET io == send_pixels(NewIo(failAt, spi_error, 0), sent.pixels)
    IN  /\ state = "Interface"
        /\ call' = [op |-> "send_pixels"]
        /\ sent' = [called |-> TRUE, pixels |-> sent.pixels]
        /\ log' = io.log
        /\ result' = io.res
        /\ error' = io.err
        /\ UNCHANGED <<state, config, color, framebuffer, fb_before, prev_failed,
                       touched, size>>

NextPixels ==
    \E failAt \in 0..(MaxChunks + 2), spi_error \in SpiError : SendPixels(failAt, spi_error)

SpecPixels == InitPixels /\ [][NextPixels]_vars

(***************************************************************************)
(* Observations on the log of the last call.                               *)
(***************************************************************************)
IsTx(e) == e.kind = "tx"
IsPixelTx(e) == e.kind = "tx" /\ e.opcode = 50 /\ e.mode = "Quad"
TxCount == Cardinality({i \in 1..Len(log) : IsTx(log[i])})
PixelTxIndices == {i \in 1..Len(log) : IsPixelTx(log[i])}

\* the payloads of the pixel transactions of the log from entry i on, joined
RECURSIVE PixelData(_)
PixelData(i) ==
    IF i > Len(log) THEN <<>>
    ELSE IF IsPixelTx(log[i]) THEN log[i].data \o PixelData(i + 1)
    ELSE PixelData(i + 1)

CeilDiv(a, b) == (a + b - 1) \div b

(***************************************************************************)
(* Claims about Lgt4s3Driver::send_pixels (SpecPixels).                    *)
(***************************************************************************)

\* C1: when the transport never fails, send_pixels on a payload of length L
\* issues exactly ceil(L / 16380) transactions, each with a payload of at
\* most 16380 bytes, and the payloads joined in issue order are the payload
\* that was passed in (L = 0 and exact multiples of 16380 included).
C1_Chunking ==
    (call.op = "send_pixels" /\ result = "Ok") =>
        /\ Len(log) = CeilDiv(Len(sent.pixels), 16380)
        /\ \A i \in 1..Len(log) :
              IsPixelTx(log[i]) /\ log[i].ok /\ Len(log[i].data) <= 16380
        /\ PixelData(1) = sent.pixels

\* a payload of exactly two full chunks was sent in two transactions
C1_Witness ==
    /\ call.op = "send_pixels"
    /\ result = "Ok"
    /\ Len(sent.pixels) = 2 * DMA_CHUNK_SIZE
    /\ Len(log) = 2

\* C2: in one burst the first pixel transaction is addressed 0x2C00
\* (RAMWR << 8) and every later one 0x3C00 (RAMWRC << 8); so no RAMWRC
\* transaction is issued without a RAMWR transaction of the same burst
\* before it, and every burst starts with RAMWR again.
C2_BurstAddresses ==
    \A i \in PixelTxIndices :
        log[i].addr = IF \A j \in PixelTxIndices : j >= i THEN 11264 ELSE 15360

\* a burst of three chunks: RAMWR, RAMWRC, RAMWRC
C2_Witness ==
    /\ call.op = "send_pixels"
    /\ Len(log) = 3
    /\ log[1].addr = 11264
    /\ log[2].addr = 15360
    /\ log[3].addr = 15360
    /\ log[3].ok

(***************************************************************************)
(* Claims about partial_flush and set_window (Spec).                       *)
(***************************************************************************)
\* bytes per pixel as the documentation gives them
Bpp(c) == IF c = "Rgb565" THEN 2 ELSE IF c = "Gray8" THEN 1 ELSE 3

\* the framebuffer has width * height * n bytes; by division, so that the
\* sides of the largest panel are not multiplied
FullSize(n) ==
    IF config.width = 0 \/ config.height = 0 THEN Len(framebuffer) = 0
    ELSE /\ Len(framebuffer) % (config.width * n) = 0
         /\ Len(framebuffer) \div (config.width * n) = config.height

InsidePanel(rc) ==
    /\ 0 <= rc.x_start /\ rc.x_start <= rc.x_end /\ rc.x_end < config.width
    /\ 0 <= rc.y_start /\ rc.y_start <= rc.y_end /\ rc.y_end < config.height

\* the CASET and the RASET transaction of the call were both accepted
WindowAccepted ==
    /\ Len(log) >= 2
    /\ IsTx(log[1]) /\ log[1].addr = 10752 /\ log[1].ok      \* 0x2A00
    /\ IsTx(log[2]) /\ log[2].addr = 11008 /\ log[2].ok      \* 0x2B00

\* framebuffer[(y*width + x_start)*bpp .. (y*width + x_end + 1)*bpp) for the
\* rows y..y_end of the rectangle, top to bottom
RECURSIVE RowsOf(_, _, _, _, _)
RowsOf(fb, w, bpp, rc, y) ==
    IF y > rc.y_end THEN <<>>
    ELSE SubSeq(fb, (y * w + rc.x_start) * bpp + 1, (y * w + rc.x_end + 1) * bpp)
         \o RowsOf(fb, w, bpp, rc, y + 1)

\* the bytes handed to send_pixels are the rows of the rectangle
Packed ==
    /\ sent.called
    /\ sent.pixels = RowsOf(framebuffer, config.width, Bpp(call.color),
                            call.rect, call.rect.y_start)
    /\ (config.width = 450 /\ call.rect = Rect(10, 19, 5, 5)
            /\ call.color = "Rgb888") =>
          sent.pixels = SubSeq(framebuffer, 6781, 6810)

\* C3: for every rectangle inside the panel and a framebuffer of
\* width*height*bpp bytes, the bytes partial_flush hands to send_pixels are
\* the rectangle's rows, top to bottom, each restricted to its columns; on a
\* 450 wide Rgb888 buffer the rectangle x 10..19, y 5..5 gives the 30 bytes
\* from offset (5*450 + 10)*3 on.  Only a transaction the transport refused
\* keeps the call from handing them over.
C3_Packing ==
    (/\ call.op = "partial_flush"
     /\ InsidePanel(call.rect)
     /\ FullSize(Bpp(call.color))) =>
        IF WindowAccepted THEN Packed
        ELSE /\ ~sent.called
             /\ result = "InterfaceError"

\* a panel 481 wide and one row high, in Gray8 with its 481 bytes: its whole
\* row, columns 0..480, was refused before any transaction, and nothing was
\* handed to send_pixels
C3_RowRefused ==
    /\ call.op = "partial_flush"
    /\ config = DisplaySize(481, 1)
    /\ call.rect = Rect(0, 480, 0, 0)
    /\ call.color = "Gray8"
    /\ Len(framebuffer) = 481
    /\ result = "InvalidConfiguration"
    /\ error = "Invalid window dimensions"
    /\ log = <<>>
    /\ ~sent.called

\* where the rectangle ends before column 480, the rows are handed over as
\* C3 says
C3_PackingBelowColumn480 ==
    (call.op = "partial_flush" /\ call.rect.x_end < 480) => C3_Packing

\* the last column of a 2 by 2 Rgb888 panel, two rows that are not adjacent
\* in the caller's array, was packed and sent
C3_Witness ==
    /\ call.op = "partial_flush"
    /\ config = DisplaySize(2, 2)
    /\ call.rect = Rect(1, 1, 0, 1)
    /\ call.color = "Rgb888"
    /\ framebuffer = StaticArray(12)
    /\ result = "Ok"
    /\ sent = Sent(<<19, 20, 21, 25, 26, 27>>)

\* the scenario of the documentation was run
C3_ExampleReached ==
    /\ call.op = "partial_flush"
    /\ config.width = 450
    /\ call.rect = Rect(10, 19, 5, 5)
    /\ call.color = "Rgb888"
    /\ result = "Ok"
    /\ Len(sent.pixels) = 30

\* C4: partial_flush answers InvalidConfiguration, and issues no transaction
\* at all, for every rectangle with x_end < x_start, or y_end < y_start, or
\* x_end >= the configured width, or y_end >= the configured height.
C4_RejectsOutsidePanel ==
    (/\ call.op = "partial_flush"
     /\ \/ call.rect.x_end < call.rect.x_start
        \/ call.rect.y_end < call.rect.y_start
        \/ call.rect.x_end >= config.width
        \/ call.rect.y_end >= config.height) =>
        /\ result = "InvalidConfiguration"
        /\ TxCount = 0

\* C5: whenever set_window, flush or partial_flush returns
\* InvalidConfiguration, no transport transaction was issued by that call.
C5_InvalidBeforeAnyTransaction ==
    (call.op \in {"set_window", "flush", "partial_flush"}
        /\ result = "InvalidConfiguration") => TxCount = 0

(***************************************************************************)
(* Claims about draw_iter (SpecDraw) and framebuffer_size (SpecSize).      *)
(***************************************************************************)
Red(c) == (c \div 65536) % 256
Green(c) == (c \div 256) % 256
Blue(c) == c % 256

InBounds(p) ==
    /\ 0 <= p.x /\ p.x < config.width
    /\ 0 <= p.y /\ p.y < config.height

\* y * width + x <= q for a pixel inside the panel, by division likewise
NumberAtMost(p, q) == q >= p.x /\ p.y <= (q - p.x) \div config.width

\* the pixel is inside the panel and the three bytes at (y*width + x) * 3
\* lie in a buffer of len bytes
Fits(p, len) == InBounds(p) /\ len >= 3 /\ NumberAtMost(p, (len - 3) \div 3)

\* the pixel is inside the panel and (y*width + x) * 3 + 2 exceeds
\* u32::MAX, 4294967295: y*width + x is above 1431655764
BeyondU32(p) == InBounds(p) /\ ~NumberAtMost(p, 1431655764)

\* the bytes of one pixel of mode m hold colour c: the three channel bytes
\* in the truecolor modes, the 5-6-5 bits, high byte first, in Rgb565, and
\* in Gray8 a grey level between the smallest and the largest channel
Holds(m, slot, c) ==
    CASE Bpp(m) = 3 -> slot = <<Red(c), Green(c), Blue(c)>>
      [] m = "Rgb565" ->
            /\ slot[1] = (Red(c) \div 8) * 8 + Green(c) \div 32
            /\ slot[2] = ((Green(c) \div 4) % 8) * 32 + Blue(c) \div 8
      [] m = "Gray8" ->
            /\ slot[1] >= Min(Red(c), Min(Green(c), Blue(c)))
            /\ slot[1] <= -Min(-Red(c), Min(-Green(c), -Blue(c)))

\* C6: with a framebuffer of framebuffer_size(display, mode) bytes, in the
\* mode chosen at construction, the bytes at offset (y*width + x) *
\* bytes_per_pixel(mode) hold the colour draw_iter has just written at the
\* valid coordinate (x, y).
C6_RoundTrip ==
    (/\ call.op = "draw_iter"
     /\ Len(call.pixels) = 1
     /\ InBounds(call.pixels[1])
     /\ FullSize(Bpp(color))) =>
        LET p == call.pixels[1]
            off == (p.y * config.width + p.x) * Bpp(color)
        IN  Holds(color, SubSeq(framebuffer, off + 1, off + Bpp(color)), p.c)

\* the pixels of the last draw_iter call that are inside the panel, have
\* their three bytes inside the buffer, and cover byte i of it
WritersOf(i) ==
    {k \in 1..Len(call.pixels) :
        LET idx == (call.pixels[k].y * config.width + call.pixels[k].x) * 3
        IN  /\ Fits(call.pixels[k], Len(fb_before))
            /\ idx < i /\ i <= idx + 3}

LastOf(S) == CHOOSE k \in S : \A j \in S : j <= k

\* byte i of the buffer after the call, if the pixels outside the panel are
\* dropped and the others written one after the other
ClippedByte(i) ==
    IF WritersOf(i) = {} THEN fb_before[i]
    ELSE LET p == call.pixels[LastOf(WritersOf(i))]
             ch == i - (p.y * config.width + p.x) * 3
         IN  IF ch = 1 THEN Red(p.c) ELSE IF ch = 2 THEN Green(p.c) ELSE Blue(p.c)

\* C7: a pixel outside [0,width) x [0,height), negative coordinates
\* included, changes no byte of the framebuffer and produces no error: an
\* iterator of such pixels only returns Ok and leaves the buffer as it was,
\* on every panel; in any iterator the call ends as it does without them;
\* and the pixels of the iterator that are inside the panel (and whose
\* bytes lie in the buffer) are written, draw_iter returning Ok, where no
\* index + 2 of theirs exceeds u32::MAX.
C7_Clipping ==
    (call.op = "draw_iter") =>
        /\ Len(framebuffer) = Len(fb_before)
        /\ (\A k \in 1..Len(call.pixels) : ~InBounds(call.pixels[k])) =>
              (result = "Ok" /\ framebuffer = fb_before)
        /\ \E overflow_checks \in BOOLEAN, usize_bits \in UsizeBits :
              draw_iter(config, fb_before, SelectSeq(call.pixels, InBounds),
                        overflow_checks, usize_bits)
                 = [panic |-> result = "Panic", fb |-> framebuffer]
        /\ (\A k \in 1..Len(call.pixels) : ~BeyondU32(call.pixels[k])) =>
              /\ result = "Ok"
              /\ \A i \in 1..Len(framebuffer) : framebuffer[i] = ClippedByte(i)

\* on the largest panel a pixel left of the panel was dropped and the pixel
\* at (0, 0) after it was written
C7_WitnessWide ==
    /\ call.op = "draw_iter"
    /\ config = WideConfig
    /\ Len(call.pixels) = 2
    /\ call.pixels[1].x = -1
    /\ call.pixels[2].x = 0 /\ call.pixels[2].y = 0
    /\ framebuffer # fb_before
    /\ result = "Ok"

\* a pixel left of the panel was dropped and the next pixel of the same
\* iterator was written
C7_Witness ==
    /\ call.op = "draw_iter"
    /\ Len(call.pixels) = 2
    /\ call.pixels[1].x = -1
    /\ InBounds(call.pixels[2])
    /\ framebuffer # fb_before
    /\ result = "Ok"

\* width * height * n in 16-bit halves, the height taken byte by byte
BytesOf(cfg, n) ==
    LET m == cfg.width * n
        a == m * (cfg.height % 256)
        b == m * (cfg.height \div 256)
        low == (a % 65536) + (b % 256) * 256
    IN  [high |-> a \div 65536 + b \div 256 + low \div 65536, low |-> low % 65536]

\* C8: framebuffer_size(display, color) is width * height * bytes per
\* pixel, with 2, 3, 3 and 1 bytes for Rgb565, Rgb888, Rgb666 and Gray8;
\* 450 by 600 in Rgb888 gives 810000.
C8_FramebufferSize ==
    (call.op = "framebuffer_size") =>
        /\ ~size.panic
        /\ size.high = BytesOf(config, Bpp(color)).high
        /\ size.low = BytesOf(config, Bpp(color)).low
        /\ (config = DisplaySize(450, 600) /\ color = "Rgb888") =>
              size.high * 65536 + size.low = 810000

\* the size of the example's framebuffer was computed
C8_Witness ==
    /\ call.op = "framebuffer_size"
    /\ config = DisplaySize(450, 600)
    /\ color = "Rgb888"
    /\ size = [panic |-> FALSE, high |-> 12, low |-> 23568]

\* 65535 * 65535 * 3 = 12884508675, which is 3 * 2^32 - 393213: on a usize
\* of 32 bits without overflow checks framebuffer_size returns 4294574083,
\* 65530 * 65536 + 3
C8_Wrapped ==
    /\ call.op = "framebuffer_size"
    /\ config = DisplaySize(65535, 65535)
    /\ color = "Rgb888"
    /\ size = [panic |-> FALSE, high |-> 65530, low |-> 3]

\* with overflow checks the multiplication panics
C8_Panics ==
    /\ call.op = "framebuffer_size"
    /\ config = DisplaySize(65535, 65535)
    /\ color = "Rgb888"
    /\ size.panic

\* on a usize of 64 bits the size of the largest panel is exact
C8_LargestOn64 ==
    /\ call.op = "framebuffer_size"
    /\ config = DisplaySize(65535, 65535)
    /\ color = "Rgb888"
    /\ size = [panic |-> FALSE, high |-> 196602, low |-> 3]

\* where width * height * bytes per pixel is below 2^32 the size is as C8
\* says
C8_WithinU32 ==
    (call.op = "framebuffer_size" /\ BytesOf(config, Bpp(color)).high < 65536) =>
        C8_FramebufferSize

(***************************************************************************)
(* Claims about initialization and construction (Spec).                    *)
(***************************************************************************)
Step(cmds, datas) == [kind |-> "tx", cmds |-> cmds, datas |-> datas, ms |-> 0]
Wait(ms) == [kind |-> "delay", cmds |-> {}, datas |-> {}, ms |-> ms]

\* the documented initialization sequence; the pixel-format value and the
\* tearing-effect command are the subject of other claims
InitSequence ==
    << Step({17}, {<<>>}),                  \* SLPOUT
       Wait(120),
       Step({254}, {<<32>>}),               \* 0xFE, 0x20
       Step({38}, {<<10>>}),                \* 0x26, 0x0A
       Step({36}, {<<128>>}),               \* 0x24, 0x80
       Step({90}, {<<81>>}),                \* 0x5A, 0x51
       Step({91}, {<<46>>}),                \* 0x5B, 0x2E
       Step({254}, {<<0>>}),                \* 0xFE, 0x00
       Step({58}, {<<85>>, <<119>>, <<102>>, <<17>>}),     \* COLMOD
       Step({52, 53}, {<<>>, <<0>>}),       \* TEOFF or TEON
       Step({41}, {<<>>}),                  \* DISPON
       Wait(20),
       Step({81}, {<<255>>}) >>             \* WRDISBV, 0xFF

Matches(e, st) ==
    /\ e.kind = st.kind
    /\ IF e.kind = "delay" THEN e.ms = st.ms
       ELSE e.addr \in {c * 256 : c \in st.cmds} /\ e.data \in st.datas

\* entry e of a log is a transaction the transport refused
Refused(e) == IsTx(e) /\ ~e.ok

\* the events of initialize_display in the log of the last call: all of it,
\* or what follows the four events of the reset in a constructor
InitEvents ==
    IF call.op = "new" THEN SubSeq(log, 5, Len(log)) ELSE log

\* C9: initialize_display issues SLPOUT, 120 ms, the six manufacturer
\* writes, the COLMOD write, the tearing-effect write, DISPON, 20 ms and
\* WRDISBV = 0xFF in this order; when the transport refuses a transaction
\* nothing follows it and the call returns InterfaceError.
C9_InitOrder ==
    (\/ call.op = "initialize_display"
     \/ call.op = "new" /\ result # "ResetError") =>
        LET ev == InitEvents
        IN  /\ Len(ev) >= 1 /\ Len(ev) <= Len(InitSequence)
            /\ \A i \in 1..Len(ev) : Matches(ev[i], InitSequence[i])
            /\ \A i \in 1..(Len(ev) - 1) : ~Refused(ev[i])
            /\ IF Refused(ev[Len(ev)]) THEN result = "InterfaceError"
               ELSE result = "Ok" /\ Len(ev) = Len(InitSequence)

\* the transport refused the COLMOD write of a constructor: eight
\* transactions and the 120 ms delay after the reset, and nothing more
C9_Witness ==
    /\ call.op = "new"
    /\ result = "InterfaceError"
    /\ Len(log) = 13
    /\ log[13].addr = 14848                  \* 0x3A00
    /\ Refused(log[13])
    /\ log[6] = [kind |-> "delay", ms |-> 120]

\* the reset of a constructor succeeded: pin low, 20 ms, pin high, 150 ms
ResetDone ==
    /\ Len(log) >= 4
    /\ log[1] = [kind |-> "pin", level |-> "low", ok |-> TRUE]
    /\ log[2] = [kind |-> "delay", ms |-> 20]
    /\ log[3] = [kind |-> "pin", level |-> "high", ok |-> TRUE]
    /\ log[4] = [kind |-> "delay", ms |-> 150]

\* C10: a constructor returns a Driver only after the reset and then every
\* one of the eleven initialization transactions succeeded, the reset
\* before the first transaction; a failed reset gives ResetError and no
\* transaction at all; a refused transaction gives no Driver.
C10_AllOrNothing ==
    /\ (state = "Constructing") => (call.op = "none" /\ log = <<>>)
    /\ (state \in {"Ready", "Panicked"}) => call.op # "none" \/ framebuffer = fb_before
    /\ (call.op = "new") =>
          /\ (state = "Ready") <=> (result = "Ok")
          /\ (state # "Ready") => (state = "Failed" /\ framebuffer = <<>>)
          /\ (result = "Ok") =>
                /\ ResetDone
                /\ TxCount = 11
                /\ \A i \in 1..Len(log) : IsTx(log[i]) => (log[i].ok /\ i > 4)
          /\ (result = "ResetError") <=>
                (\E i \in 1..Len(log) : log[i].kind = "pin" /\ ~log[i].ok)
          /\ (result = "ResetError") => TxCount = 0
          /\ (\E i \in 1..Len(log) : Refused(log[i])) =>
                (state = "Failed" /\ result = "InterfaceError")
          /\ result \in {"Ok", "ResetError", "InterfaceError"}

\* the reset pin could not be driven high: ResetError, no Driver, and not a
\* single transaction on the transport
C10_Witness ==
    /\ call.op = "new"
    /\ result = "ResetError"
    /\ state = "Failed"
    /\ Len(log) = 3
    /\ log[3] = [kind |-> "pin", level |-> "high", ok |-> FALSE]

(***************************************************************************)
(* Claims about flush (Spec).                                              *)
(***************************************************************************)
\* the window transactions of a flush of the whole w by h panel
FullWindow(w, h) ==
    /\ Len(log) >= 2
    /\ log[1] = [kind |-> "tx", mode |-> "Single", opcode |-> 2, addr |-> 10752,
                 data |-> <<0, 0, (w - 1) \div 256, (w - 1) % 256>>, ok |-> TRUE,
                 err |-> "none"]
    /\ log[2] = [kind |-> "tx", mode |-> "Single", opcode |-> 2, addr |-> 11008,
                 data |-> <<0, 0, (h - 1) \div 256, (h - 1) % 256>>, ok |-> TRUE,
                 err |-> "none"]

\* flush set the window to the whole panel, then passed the whole
\* framebuffer to send_pixels, and returned Ok
FlushedAll ==
    /\ result = "Ok"
    /\ FullWindow(config.width, config.height)
    /\ \A i \in 3..Len(log) : IsPixelTx(log[i])
    /\ sent = Sent(framebuffer)
    /\ PixelData(1) = framebuffer

\* C11: for every configured DisplaySize, a flush over a transport that
\* refuses nothing sets the window to (0,0)-(width-1,height-1), then passes
\* the whole framebuffer, unmodified, to send_pixels and returns Ok.
C11_FullFlush ==
    (call.op = "flush" /\ \A i \in 1..Len(log) : ~Refused(log[i])) => FlushedAll

\* the same for the display sizes with 1 <= width <= 480 and height >= 1
C11_FullFlushOfNonEmptyPanel ==
    (/\ call.op = "flush"
     /\ \A i \in 1..Len(log) : ~Refused(log[i])
     /\ 1 <= config.width /\ config.width <= 480 /\ 1 <= config.height) => FlushedAll

\* a 2 by 2 panel was flushed
C11_NonEmptyPanelFlushed ==
    /\ call.op = "flush"
    /\ config = DisplaySize(2, 2)
    /\ Len(framebuffer) = 12
    /\ result = "Ok"
    /\ Len(log) = 3

\* C12: flush and partial_flush only read the framebuffer: when either has
\* returned, with Ok, InterfaceError or InvalidConfiguration and whichever
\* of its steps failed, every byte of the framebuffer is what it was when
\* the call was made.
C12_FlushReadsOnly ==
    (call.op \in {"flush", "partial_flush"}) => framebuffer = fb_before

\* the transport refused the pixel transaction of a partial_flush of a
\* buffer with no zero byte in it
C12_Witness ==
    /\ call.op = "partial_flush"
    /\ result = "InterfaceError"
    /\ Len(log) = 3
    /\ IsPixelTx(log[3]) /\ Refused(log[3])
    /\ framebuffer = StaticArray(12)

(***************************************************************************)
(* Claims about errors of the transport (Spec).                            *)
(***************************************************************************)
\* C13: a transaction the transport refused is the last event of its call:
\* it is not attempted again, no other transaction follows it, the chunks
\* of a pixel burst after it are not sent, and the call returns the
\* transport's error as InterfaceError, holding the very error value that
\* transaction returned; InterfaceError is returned for no other reason.
C13_NoRetry ==
    /\ \A i \in 1..Len(log) :
          Refused(log[i]) =>
             /\ i = Len(log)
             /\ result = "InterfaceError"
             /\ log[i].err \in SpiError
             /\ error = log[i].err
    /\ (result = "InterfaceError") => (Len(log) >= 1 /\ Refused(log[Len(log)]))
    /\ (sent.called /\ result = "InterfaceError") =>
          /\ Len(PixelData(1)) <= Len(sent.pixels)
          /\ PixelData(1) = SubSeq(sent.pixels, 1, Len(PixelData(1)))

\* the transport refused the first chunk of a flush of 17550 bytes: the
\* second chunk was not sent
C13_Witness ==
    /\ call.op = "flush"
    /\ result = "InterfaceError"
    /\ error = "SpiErrorB"
    /\ Len(sent.pixels) = 17550
    /\ Len(log) = 3
    /\ log[3].err = "SpiErrorB"
    /\ Refused(log[3])
    /\ Len(log[3].data) = 16380

\* the transport refused the second chunk of a partial_flush of all 17550
\* bytes of the 450 wide panel: CASET, RASET and the first chunk had gone
\* through, and the call returned the error of the fourth transaction
C13_SecondChunkRefused ==
    /\ call.op = "partial_flush"
    /\ call.rect = Rect(0, 449, 0, 12)
    /\ result = "InterfaceError"
    /\ error = "SpiErrorB"
    /\ Len(sent.pixels) = 17550
    /\ Len(log) = 4
    /\ log[3].ok /\ Len(log[3].data) = 16380
    /\ Refused(log[4]) /\ log[4].addr = 15360 /\ Len(log[4].data) = 1170
    /\ log[4].err = "SpiErrorB"

(***************************************************************************)
(* Claims about the registers written by initialize_display (Spec).        *)
(***************************************************************************)
\* the transactions of the log of the last call, in issue order
RECURSIVE TxFrom(_)
TxFrom(i) ==
    IF i > Len(log) THEN <<>>
    ELSE IF IsTx(log[i]) THEN <<log[i]>> \o TxFrom(i + 1)
    ELSE TxFrom(i + 1)

\* the last call ran initialize_display: by itself, or in a constructor whose
\* reset succeeded
RanInitialize ==
    \/ call.op = "initialize_display"
    \/ call.op = "new" /\ result # "ResetError"

\* C14: in initialize_display the transaction after the COLMOD write, which
\* is the one before DISPON, is the tearing-effect-off command TEOFF (0x34).
C14_TearingOff ==
    RanInitialize =>
        LET tx == TxFrom(1)
        IN  \A i \in 1..(Len(tx) - 1) :
               (tx[i].addr = 14848) =>               \* 0x3A00
                  /\ tx[i + 1].addr = 13312          \* 0x3400
                  /\ (i + 2 <= Len(tx)) => tx[i + 2].addr = 10496     \* 0x2900

\* the COLMOD value the documentation gives for a colour mode
PixelFormat(m) ==
    CASE m = "Rgb565" -> 85       \* 0x55
      [] m = "Rgb888" -> 119      \* 0x77
      [] m = "Rgb666" -> 102      \* 0x66
      [] m = "Gray8"  -> 17       \* 0x11

\* the positions of the COLMOD writes among the transactions tx
ColmodWrites(tx) == {i \in 1..Len(tx) : tx[i].addr = 14848}      \* 0x3A00

\* the colour mode initialize_display was run with
InitMode == IF call.op = "new" THEN color ELSE call.color

\* C15: a run of initialize_display writes COLMOD (0x3A) at most once, and
\* exactly once when it runs to its end; the one byte written is 0x55 for
\* Rgb565, 0x77 for Rgb888, 0x66 for Rgb666 and 0x11 for Gray8, so two modes
\* never share a value.
C15_PixelFormat ==
    RanInitialize =>
        LET tx == TxFrom(1)
        IN  /\ Cardinality(ColmodWrites(tx)) <= 1
            /\ (result = "Ok") => Cardinality(ColmodWrites(tx)) = 1
            /\ \A i \in ColmodWrites(tx) : tx[i].data = <<PixelFormat(InitMode)>>
            /\ \A m \in ColorMode :
                  (\E i \in ColmodWrites(tx) : tx[i].data = <<PixelFormat(m)>>)
                      => m = InitMode

\* a driver constructed in Rgb888 was initialized again in Gray8: one COLMOD
\* write, of 0x11
C15_Witness ==
    /\ call.op = "initialize_display"
    /\ color = "Rgb888"
    /\ call.color = "Gray8"
    /\ result = "Ok"
    /\ \E i \in 1..Len(log) : IsTx(log[i]) /\ log[i].addr = 14848 /\ log[i].data = <<17>>

(***************************************************************************)
(* Claims about the bounds of the framebuffer (Spec).                      *)
(***************************************************************************)
\* a <= b for two usize values in 16-bit halves
AtMost(a, b) == a.high < b.high \/ (a.high = b.high /\ a.low <= b.low)

\* C16: every index expression that draw_iter, flush and partial_flush
\* evaluate on the framebuffer lies inside it: a byte index in [0, len), a
\* range from..to with 0 <= from <= to <= len; this for every buffer length,
\* those below width*height*3 included, and every coordinate, rectangle and
\* ColorMode argument.
C16_BoundsSafety ==
    \A r \in touched :
        /\ AtMost(usize_halves(0), r[1])
        /\ AtMost(r[1], r[2])
        /\ AtMost(r[2], usize_halves(Len(fb_before)))

\* a 2 by 2 panel with a buffer of four bytes, drawn into at its last pixel,
\* whose three bytes would start at offset 9: nothing was indexed
C16_WitnessDraw ==
    /\ call.op = "draw_iter"
    /\ config = DisplaySize(2, 2)
    /\ Len(framebuffer) = 4
    /\ Len(call.pixels) = 1
    /\ call.pixels[1].x = 1 /\ call.pixels[1].y = 1
    /\ touched = {}

\* the same panel and buffer, its last column flushed as if it were Rgb565:
\* the first row of the rectangle was read, the second lies outside the buffer
C16_Witness ==
    /\ call.op = "partial_flush"
    /\ config = DisplaySize(2, 2)
    /\ Len(framebuffer) = 4
    /\ call.color = "Rgb565"
    /\ call.rect = Rect(1, 1, 0, 1)
    /\ touched = usize_ranges({<<2, 4>>})
    /\ result = "InvalidConfiguration"

\* flush and partial_flush index inside the buffer
C16_FlushBounds ==
    (call.op \in {"flush", "partial_flush"}) => C16_BoundsSafety

\* draw_iter indexes inside the buffer where no pixel of the iterator has
\* an index + 2 above u32::MAX
C16_DrawBoundsWithinU32 ==
    (call.op = "draw_iter"
        /\ \A k \in 1..Len(call.pixels) : ~BeyondU32(call.pixels[k])) => C16_BoundsSafety

\* on the largest panel, with a buffer of eight bytes, the index of the
\* valid coordinate (43690, 21845) is 0xFFFFFFFF.  With a usize of 32 bits
\* and no overflow checks, index + 2 wraps to 1, which is below 8, and
\* self.framebuffer[0xFFFFFFFF] is evaluated: the call panics
C16_IndexOutside ==
    /\ call.op = "draw_iter"
    /\ config = WideConfig
    /\ call.pixels = <<Pixel(43690, 21845, 1193046)>>
    /\ Len(fb_before) = 8
    /\ touched = {<<[high |-> 65535, low |-> 65535], [high |-> 65536, low |-> 0]>>}
    /\ framebuffer = fb_before
    /\ result = "Panic"

\* likewise the index of (21845, 43691), which wraps on u32 to 0xFFFFFFFE
C16_WrappedIndexOutside ==
    /\ call.op = "draw_iter"
    /\ config = WideConfig
    /\ call.pixels = <<Pixel(21845, 43691, 1193046)>>
    /\ touched = {<<[high |-> 65535, low |-> 65534], [high |-> 65535, low |-> 65535]>>}
    /\ result = "Panic"

\* with a usize of 32 bits and overflow checks, index + 2 panics for the
\* first of these coordinates, and nothing is indexed
C16_AddOverflowPanics ==
    /\ call.op = "draw_iter"
    /\ config = WideConfig
    /\ call.pixels = <<Pixel(43690, 21845, 1193046)>>
    /\ touched = {}
    /\ result = "Panic"

\* with a usize of 64 bits the same pixel is dropped: its bytes lie outside
\* the buffer
C16_DroppedOn64 ==
    /\ call.op = "draw_iter"
    /\ config = WideConfig
    /\ call.pixels = <<Pixel(43690, 21845, 1193046)>>
    /\ touched = {}
    /\ framebuffer = fb_before
    /\ result = "Ok"

(***************************************************************************)
(* Claims about the rows and the window of partial_flush (Spec).           *)
(***************************************************************************)
\* the bytes of row y of rectangle rc, at n bytes per pixel, lie in the
\* framebuffer: (y * width + x_end + 1) * n <= len, computed in 16-bit
\* halves
RowInside(rc, n, y) ==
    LET m == config.width * n
        a == m * (y % 256)
        b == m * (y \div 256)
        low == (a % 65536) + (b % 256) * 256 + (rc.x_end + 1) * n
        high == a \div 65536 + b \div 256 + low \div 65536
    IN  high < 32768 /\ high * 65536 + (low % 65536) <= Len(framebuffer)

\* C17: when the byte range of some row of the rectangle is not entirely
\* inside the framebuffer, partial_flush returns InvalidConfiguration and
\* does not call send_pixels; a payload it does hand to send_pixels has
\* exactly (x_end-x_start+1) * (y_end-y_start+1) * bytes_per_pixel(color)
\* bytes, and it returns Ok only after handing one over.
C17_NoTruncatedPayload ==
    (call.op = "partial_flush") =>
        LET rc == call.rect
            n == Bpp(call.color)
        IN  /\ (WindowAccepted
                  /\ \E y \in rc.y_start..rc.y_end : ~RowInside(rc, n, y)) =>
                  /\ result = "InvalidConfiguration"
                  /\ ~sent.called
                  /\ PixelTxIndices = {}
            /\ sent.called =>
                  Len(sent.pixels) =
                     (rc.x_end - rc.x_start + 1) * (rc.y_end - rc.y_start + 1) * n
            /\ (result = "Ok") => sent.called

\* the byte range of some row of the call's rectangle ends at 2^32 or
\* beyond
RowBeyondU32 ==
    \E y \in call.rect.y_start..call.rect.y_end :
        LET m == config.width * Bpp(call.color)
            a == m * (y % 256)
            b == m * (y \div 256)
            low == (a % 65536) + (b % 256) * 256
                      + (call.rect.x_end + 1) * Bpp(call.color)
        IN  a \div 65536 + b \div 256 + low \div 65536 >= 65536

\* on the panel 65534 wide, with a buffer of eight bytes, the Rgb888 bytes
\* of pixel (2, 21846) would start at 2^32 + 2.  With a usize of 32 bits
\* and no overflow checks the offset wraps to 2 and row_end to 5: bytes
\* 2..4 of the buffer were sent and the call returned Ok
C17_WrappedRowSent ==
    /\ call.op = "partial_flush"
    /\ config = DisplaySize(65534, 65535)
    /\ call.rect = Rect(2, 2, 21846, 21846)
    /\ call.color = "Rgb888"
    /\ framebuffer = StaticArray(8)
    /\ WindowAccepted
    /\ sent = Sent(<<18, 19, 20>>)
    /\ result = "Ok"

\* with overflow checks the same call panics, after CASET and RASET
C17_OverflowPanics ==
    /\ call.op = "partial_flush"
    /\ config = DisplaySize(65534, 65535)
    /\ call.rect = Rect(2, 2, 21846, 21846)
    /\ call.color = "Rgb888"
    /\ WindowAccepted
    /\ ~sent.called
    /\ result = "Panic"

\* with a usize of 64 bits the same call returns InvalidConfiguration
C17_RefusedOn64 ==
    /\ call.op = "partial_flush"
    /\ config = DisplaySize(65534, 65535)
    /\ call.rect = Rect(2, 2, 21846, 21846)
    /\ call.color = "Rgb888"
    /\ WindowAccepted
    /\ ~sent.called
    /\ result = "InvalidConfiguration"
    /\ error = "Framebuffer slice out of bounds"

\* where the byte range of every row ends below 2^32, partial_flush is as
\* C17 says
C17_WithinU32 ==
    (call.op = "partial_flush" /\ ~RowBeyondU32) => C17_NoTruncatedPayload

\* three columns and two rows of a 2 by 2 Rgb888 panel: the first row's nine
\* bytes lie in the buffer of twelve, the second row's do not, and nothing
\* was sent
C17_Witness ==
    /\ call.op = "partial_flush"
    /\ config = DisplaySize(2, 2)
    /\ Len(framebuffer) = 12
    /\ call.color = "Rgb888"
    /\ call.rect = Rect(0, 2, 0, 1)
    /\ WindowAccepted
    /\ result = "InvalidConfiguration"
    /\ ~sent.called
    /\ Len(log) = 2

\* C18: set_window returns InvalidConfiguration, before any transaction,
\* exactly when x_end < x_start, or y_end < y_start, or x_end >= 480 (the
\* controller's column range, whatever the configured width), or y_end >=
\* the configured height; in every other case it issues the CASET
\* transaction.
C18_WindowValidation ==
    (call.op = "set_window") =>
        LET rc == call.rect
            invalid == \/ rc.x_end < rc.x_start
                       \/ rc.y_end < rc.y_start
                       \/ rc.x_end >= 480
                       \/ rc.y_end >= config.height
        IN  /\ (result = "InvalidConfiguration") <=> invalid
            /\ invalid => log = <<>>
            /\ ~invalid => (Len(log) >= 1 /\ IsTx(log[1]) /\ log[1].addr = 10752)

\* on a panel two pixels wide, a window up to column 479 was accepted
C18_Witness ==
    /\ call.op = "set_window"
    /\ config.width = 2
    /\ call.rect = Rect(0, 479, 0, 0)
    /\ result = "Ok"
    /\ Len(log) = 2
    /\ log[1].data = <<0, 0, 1, 223>>

\* on the same panel a window up to column 480 was refused
C18_ColumnRangeRefused ==
    /\ call.op = "set_window"
    /\ config.width = 2
    /\ call.rect = Rect(0, 480, 0, 0)
    /\ result = "InvalidConfiguration"

\* C19: in flush and partial_flush the transactions are CASET, then RASET,
\* then the pixel burst, each issued only after the one before it was
\* accepted: a refused CASET is followed by nothing, a refused RASET by no
\* pixel transaction.
C19_WindowBeforePixels ==
    (call.op \in {"flush", "partial_flush"}) =>
        /\ \A i \in 1..Len(log) : IsTx(log[i])
        /\ (Len(log) >= 1) => (log[1].addr = 10752 /\ log[1].opcode = 2)
        /\ (Len(log) >= 2) => (log[1].ok /\ log[2].addr = 11008 /\ log[2].opcode = 2)
        /\ (Len(log) >= 3) => log[2].ok
        /\ \A i \in 1..Len(log) : IsPixelTx(log[i]) <=> i >= 3
        /\ sent.called => WindowAccepted

\* the transport accepted CASET and refused RASET of a flush: no pixel
\* transaction, and the window is left with its columns set only
C19_Witness ==
    /\ call.op = "flush"
    /\ Len(framebuffer) = 12
    /\ Len(log) = 2
    /\ log[1].addr = 10752 /\ log[1].ok
    /\ log[2].addr = 11008 /\ Refused(log[2])
    /\ result = "InterfaceError"
    /\ ~sent.called

(***************************************************************************)
(* Claims about the bytes of a pixel (SpecDraw).                           *)
(***************************************************************************)
\* the offset of the first byte of pixel p, at three bytes per pixel
Offset3(p) == (p.y * config.width + p.x) * 3

\* pixel k of the last draw_iter call has a valid coordinate and its three
\* bytes lie in the buffer
Stored(k) == Fits(call.pixels[k], Len(fb_before))

\* no later pixel of the iterator has the coordinate of pixel k
LastAt(k) ==
    \A j \in (k + 1)..Len(call.pixels) :
        call.pixels[j].x # call.pixels[k].x \/ call.pixels[j].y # call.pixels[k].y

\* C20: a pixel written by draw_iter at a valid coordinate (x, y) leaves its
\* red, green and blue byte, in this order, at the offsets (y*width + x)*3,
\* +1 and +2; of several pixels at one coordinate the last of the iterator
\* is the one left; every byte not among the three bytes of a written pixel
\* keeps its value; draw_iter invokes neither the transport nor the reset.
\* In the truecolor modes, with a buffer of framebuffer_size bytes, every
\* valid coordinate has its three bytes in the buffer.
C20_PixelWrite ==
    (call.op = "draw_iter") =>
        LET px == call.pixels
        IN  /\ log = <<>> /\ ~sent.called /\ result = "Ok"
            /\ Len(framebuffer) = Len(fb_before)
            /\ \A k \in 1..Len(px) :
                  (Stored(k) /\ LastAt(k)) =>
                     SubSeq(framebuffer, Offset3(px[k]) + 1, Offset3(px[k]) + 3)
                        = <<Red(px[k].c), Green(px[k].c), Blue(px[k].c)>>
            /\ \A i \in 1..Len(framebuffer) :
                  (\A k \in 1..Len(px) :
                      ~(Stored(k) /\ Offset3(px[k]) < i /\ i <= Offset3(px[k]) + 3))
                     => framebuffer[i] = fb_before[i]
            /\ (Bpp(color) = 3 /\ FullSize(3)) =>
                  \A k \in 1..Len(px) : InBounds(px[k]) => Stored(k)

\* two pixels at (0, 0) of a 2 by 2 Rgb888 panel, 0x123456 and then
\* 0xFF00AA: the first three bytes are FF 00 AA, the other nine untouched
C20_Witness ==
    /\ call.op = "draw_iter"
    /\ config = DisplaySize(2, 2)
    /\ color = "Rgb888"
    /\ call.pixels = <<Pixel(0, 0, 1193046), Pixel(0, 0, 16711850)>>
    /\ fb_before = StaticArray(12)
    /\ framebuffer = <<255, 0, 170>> \o SubSeq(StaticArray(12), 4, 12)

\* on the largest panel, with a buffer of eight bytes, the valid coordinate
\* (43691, 21845) has its bytes at offset 2^32 + 2, outside the buffer: a
\* build without overflow checks stores 0x123456 at offset 2 and returns Ok
C20_WrappedWrite ==
    /\ call.op = "draw_iter"
    /\ config = WideConfig
    /\ call.pixels = <<Pixel(43691, 21845, 1193046)>>
    /\ fb_before = StaticArray(8)
    /\ framebuffer = <<16, 17, 18, 52, 86, 21, 22, 23>>
    /\ result = "Ok"

\* a build with overflow checks panics at that pixel, after the pixel before
\* it in the iterator has been written
C20_OverflowPanics ==
    /\ call.op = "draw_iter"
    /\ config = WideConfig
    /\ call.pixels = <<Pixel(0, 0, 16711850), Pixel(43691, 21845, 1193046)>>
    /\ fb_before = StaticArray(8)
    /\ framebuffer = <<255, 0, 170, 19, 20, 21, 22, 23>>
    /\ result = "Panic"
    /\ state = "Panicked"

\* where no pixel of the iterator has an index + 2 above u32::MAX, the
\* writes are as C20 says
C20_WithinU32 ==
    (call.op = "draw_iter"
        /\ \A k \in 1..Len(call.pixels) : ~BeyondU32(call.pixels[k])) => C20_PixelWrite

(***************************************************************************)
(* Claims about calls that follow a failed call (Spec).                    *)
(***************************************************************************)
\* C21: the driver keeps no failure state.  A flush over a transport that
\* refuses nothing issues CASET(0..width-1), RASET(0..height-1) and the
\* pixel burst of the whole framebuffer, and returns Ok, also when the call
\* before it returned an error at any of its steps: flush sets the window
\* itself every time.
C21_NoFailureState ==
    (/\ call.op = "flush"
     /\ prev_failed
     /\ \A i \in 1..Len(log) : ~Refused(log[i])) =>
        /\ FlushedAll
        /\ Len(log) >= 3
        /\ log[3].addr = 11264               \* 0x2C00: the burst starts at RAMWR

\* a panel 481 wide: the flush that followed a call the transport had
\* refused returned InvalidConfiguration and issued no transaction
C21_FlushRefused ==
    /\ call.op = "flush"
    /\ prev_failed
    /\ config = DisplaySize(481, 1)
    /\ Len(framebuffer) = 481
    /\ result = "InvalidConfiguration"
    /\ log = <<>>
    /\ ~sent.called

\* the same for the display sizes with 1 <= width <= 480 and height >= 1
C21_NoFailureStateOfNonEmptyPanel ==
    (call.op = "flush" /\ 1 <= config.width /\ config.width <= 480
        /\ 1 <= config.height) => C21_NoFailureState

\* a 2 by 2 Rgb888 panel was flushed in full right after a call that had
\* returned an error
C21_Witness ==
    /\ call.op = "flush"
    /\ prev_failed
    /\ config = DisplaySize(2, 2)
    /\ Len(framebuffer) = 12
    /\ result = "Ok"
    /\ Len(log) = 3
    /\ log[1].addr = 10752 /\ log[2].addr = 11008 /\ log[3].addr = 11264
    /\ log[3].data = framebuffer

(***************************************************************************)
(* Claims about the window payloads and the u16 arithmetic (Spec).         *)
(***************************************************************************)
\* the 16 bit value of the bytes hi, lo, most significant first
BigEndian(hi, lo) == hi * 256 + lo

IsByte(b) == b \in 0..255

\* C22: the CASET transaction of an accepted window carries the four bytes
\* x_start high, x_start low, x_end high, x_end low and the RASET
\* transaction y_start high, y_start low, y_end high, y_end low, so the
\* values decoded from them are the arguments; partial_flush, which takes
\* (x_start, x_end, y_start, y_end), sets the window of these same values.
C22_WindowPayloads ==
    (call.op \in {"set_window", "partial_flush"}) =>
        LET rc == call.rect
        IN  /\ (Len(log) >= 1) =>
                  /\ log[1].addr = 10752
                  /\ Len(log[1].data) = 4
                  /\ \A k \in 1..4 : IsByte(log[1].data[k])
                  /\ BigEndian(log[1].data[1], log[1].data[2]) = rc.x_start
                  /\ BigEndian(log[1].data[3], log[1].data[4]) = rc.x_end
            /\ (Len(log) >= 2) =>
                  /\ log[2].addr = 11008
                  /\ Len(log[2].data) = 4
                  /\ \A k \in 1..4 : IsByte(log[2].data[k])
                  /\ BigEndian(log[2].data[1], log[2].data[2]) = rc.y_start
                  /\ BigEndian(log[2].data[3], log[2].data[4]) = rc.y_end

\* partial_flush of columns 10..19 of row 5 of the 450 wide panel: CASET
\* 00 0A 00 13, RASET 00 05 00 05
C22_Witness ==
    /\ call.op = "partial_flush"
    /\ call.rect = Rect(10, 19, 5, 5)
    /\ Len(log) >= 2
    /\ log[1].data = <<0, 10, 0, 19>>
    /\ log[2].data = <<0, 5, 0, 5>>

\* a column above 255: 449 is 01 C1
C22_HighColumnReached ==
    /\ call.op = "set_window"
    /\ Len(log) >= 1
    /\ log[1].data = <<1, 193, 1, 193>>

\* a row above 255: 65534 is FF FE
C22_HighRowReached ==
    /\ call.op = "set_window"
    /\ Len(log) = 2
    /\ log[2].data = <<255, 254, 255, 254>>
    /\ result = "Ok"

\* flush got past set_window's validation
FlushValidated == result \in {"Ok", "InterfaceError"}

\* the display sizes with 1 <= width <= 480 and height >= 1
FlushableSize == 1 <= config.width /\ config.width <= 480 /\ 1 <= config.height

\* width - 1 and height - 1 as flush computes them are the numbers width - 1
\* and height - 1, in a build with overflow checks and in one without
NoUnderflow ==
    \A overflow_checks \in BOOLEAN :
        /\ dec_u16(config.width, overflow_checks)
              = [panic |-> FALSE, v |-> config.width - 1]
        /\ dec_u16(config.height, overflow_checks)
              = [panic |-> FALSE, v |-> config.height - 1]

\* C23: flush passes the window validation exactly on the displays with
\* 1 <= width <= 480 and height >= 1, where it never returns
\* InvalidConfiguration; and its computations width - 1 and height - 1 do
\* not underflow for any DisplaySize a driver can be constructed with,
\* width = 0 and height = 0 included.
C23_FlushValidation ==
    (call.op = "flush") =>
        /\ FlushValidated <=> FlushableSize
        /\ FlushableSize => result # "InvalidConfiguration"
        /\ result # "Panic"
        /\ NoUnderflow

\* the first half of C23 alone: validation is passed exactly on the displays
\* with 1 <= width <= 480 and height >= 1
C23_ValidatedExactlyWhenFlushable ==
    (call.op = "flush") => (FlushValidated <=> FlushableSize)

\* a panel 481 wide was refused by flush, one 480 wide flushed
C23_Refused481 ==
    call.op = "flush" /\ config.width = 481 /\ result = "InvalidConfiguration"

C23_Flushed480 ==
    call.op = "flush" /\ config.width = 480 /\ result = "Ok"

\* the two builds on a panel without columns: a panic, and a window up to
\* column 65535 that set_window refuses
C23_UnderflowPanics ==
    call.op = "flush" /\ config = DisplaySize(0, 1) /\ result = "Panic"

C23_UnderflowWraps ==
    call.op = "flush" /\ config = DisplaySize(0, 1) /\ result = "InvalidConfiguration"

\* rectangle rc passes the check of set_window on the configured display
PassesValidation(rc) ==
    /\ rc.x_end >= rc.x_start
    /\ rc.y_end >= rc.y_start
    /\ rc.x_end < 480
    /\ rc.y_end < config.height

\* b - a + 1 as partial_flush computes it is the number b - a + 1, and fits
\* 16 bits, in a build with overflow checks and in one without
ExactSpan(a, b) ==
    /\ 1 <= b - a + 1 /\ b - a + 1 <= 65535
    /\ \A overflow_checks \in BOOLEAN :
          span_u16(a, b, overflow_checks) = [panic |-> FALSE, v |-> b - a + 1]

\* C24: for every rectangle that set_window's validation accepts, the u16
\* computations x_end - x_start + 1 and y_end - y_start + 1 of partial_flush
\* neither underflow nor overflow, for configured heights up to 65535: in
\* both builds they give the exact width and height, the call does not
\* panic (but in the usize offset of a row that ends at 2^32 or beyond) and
\* a payload it sends has the length of the exact width and height.
C24_SpanArithmetic ==
    (call.op = "partial_flush" /\ PassesValidation(call.rect)) =>
        LET rc == call.rect
        IN  /\ (result = "Panic") => RowBeyondU32
            /\ ExactSpan(rc.x_start, rc.x_end)
            /\ ExactSpan(rc.y_start, rc.y_end)
            /\ sent.called =>
                  Len(sent.pixels) = (rc.x_end - rc.x_start + 1)
                                        * (rc.y_end - rc.y_start + 1)
                                        * bytes_per_pixel(call.color)

\* all 65535 rows of the tallest panel: the height is 65535, the largest
\* u16, and the window was set
C24_Witness ==
    /\ call.op = "partial_flush"
    /\ config.height = 65535
    /\ call.rect = Rect(0, 0, 0, 65534)
    /\ WindowAccepted
    /\ result = "InvalidConfiguration"
    /\ touched # {}

\* the widest window, columns 0..479, was flushed in part
C24_WidestReached ==
    /\ call.op = "partial_flush"
    /\ call.rect = Rect(0, 479, 0, 0)
    /\ config.width = 480
    /\ result = "Ok"
    /\ Len(sent.pixels) = 480

====
